---- MODULE Spec2Model ----
(***************************************************************************)
(* Velocity normalization and planning engine of velociraptor              *)
(* (src/src/composables/useVelocityCalculator.ts).                         *)
(*                                                                         *)
(* The engine is a set of pure functions and one composable that derives   *)
(* its values from the sprint list and the team it is given.  The state    *)
(* is one invocation: which function is called (fn), with which arguments  *)
(* (args), whether it has run (pc) and what it returned (ret).             *)
(*                                                                         *)
(* A JavaScript number is modelled as an exact rational [n, d] in lowest   *)
(* terms with d > 0; IEEE-754 rounding of a quotient is not modelled.      *)
(* null and undefined are records of their own.                            *)
(*                                                                         *)
(* The second part is the Firestore content the stores write (teamDocs,    *)
(* sprintDocs), the deleteTeam calls that are between their query and      *)
(* their commit (deleteTeamBatch) and the last store call made by a form   *)
(* (lastCall).  One action is one form submission up to its store call,    *)
(* or one server operation of deleteTeam.                                  *)
(*                                                                         *)
(* The third part is the reactive state of one mounted component (view):   *)
(* a form between handleSubmit and the settling of its store call, and     *)
(* TeamDetailView with its confirmation dialog.                            *)
(***************************************************************************)
EXTENDS Integers, Sequences, FiniteSets, TLC

VARIABLES fn, args, pc, ret, teamDocs, sprintDocs, deleteTeamBatch, lastCall, view

engineVars == <<fn, args, pc, ret>>
storeVars == <<teamDocs, sprintDocs, deleteTeamBatch, lastCall>>
vars == <<fn, args, pc, ret, teamDocs, sprintDocs, deleteTeamBatch, lastCall,
          view>>

----------------------------------------------------------------------------
(* Bounds of the explored inputs *)

\* sprintLengthDays ranges over 1..MaxSprintLength
MaxSprintLength == 3
\* developerCount ranges over 1..MaxDevelopers
MaxDevelopers == 3
\* leaveDays ranges over 0, 0.5, ..., MaxLeave
MaxLeave == 4
\* pointsCompleted ranges over 0, 0.5, ..., MaxPoints
MaxPoints == 3
\* throughput values are i/j with i in 0..MaxVelocityNum, j in 1..MaxVelocityDen
MaxVelocityNum == 5
MaxVelocityDen == 3
\* lists of values and of sprints hold at most MaxHistory elements
MaxHistory == 6
\* list elements are 0, 0.5, ..., MaxHistoryVelocity/2
MaxHistoryVelocity == 2

----------------------------------------------------------------------------
(* JavaScript numbers as exact rationals *)

Abs(x) == IF x < 0 THEN -x ELSE x

RECURSIVE GCD(_, _)
GCD(a, b) == IF b = 0 THEN a ELSE GCD(b, a % b)

\* the number n/d (d # 0), in lowest terms with a positive denominator
Rat(n, d) ==
    LET g == GCD(Abs(n), Abs(d))
        s == IF d < 0 THEN -1 ELSE 1
    IN  [n |-> (s * n) \div g, d |-> (s * d) \div g]

Num(i) == Rat(i, 1)
Half(i) == Rat(i, 2)

Plus(a, b) == Rat(a.n * b.d + b.n * a.d, a.d * b.d)
Minus(a, b) == Rat(a.n * b.d - b.n * a.d, a.d * b.d)
Times(a, b) == Rat(a.n * b.n, a.d * b.d)
\* a / b for b # 0
Divide(a, b) == Rat(a.n * b.d, a.d * b.n)
Less(a, b) == a.n * b.d < b.n * a.d
\* Math.floor, as a number
MathFloor(a) == Num(a.n \div a.d)

Null == [null |-> TRUE]
Undefined == [undefined |-> TRUE]

----------------------------------------------------------------------------
(* Pure helper functions *)

MAX_DATA_POINTS == 5

\* Variants of calculateSprintVelocityPerDay with a plausible slip each, for
\* mutation analysis of the properties below: the leave is forgotten in the
\* divisor; only a zero or negative availableDays is rejected; availableDays
\* of exactly 1 is rejected too.
calculateSprintVelocityPerDayNoLeave(sprint) ==
    LET equivalentLeaveDays == Divide(sprint.leaveDays, sprint.developerCount)
        availableDays == Minus(sprint.sprintLengthDays, equivalentLeaveDays)
    IN  IF Less(availableDays, Num(1))
        THEN Null
        ELSE Divide(sprint.pointsCompleted, sprint.sprintLengthDays)

calculateSprintVelocityPerDayZeroGuard(sprint) ==
    LET equivalentLeaveDays == Divide(sprint.leaveDays, sprint.developerCount)
        availableDays == Minus(sprint.sprintLengthDays, equivalentLeaveDays)
    IN  IF ~Less(Num(0), availableDays)
        THEN Null
        ELSE Divide(sprint.pointsCompleted, availableDays)

calculateSprintVelocityPerDayStrictGuard(sprint) ==
    LET equivalentLeaveDays == Divide(sprint.leaveDays, sprint.developerCount)
        availableDays == Minus(sprint.sprintLengthDays, equivalentLeaveDays)
    IN  IF ~Less(Num(1), availableDays)
        THEN Null
        ELSE Divide(sprint.pointsCompleted, availableDays)

calculateSprintVelocityPerDay(sprint) ==
    LET equivalentLeaveDays == Divide(sprint.leaveDays, sprint.developerCount)
        availableDays == Minus(sprint.sprintLengthDays, equivalentLeaveDays)
    IN  IF Less(availableDays, Num(1))
        THEN Null
        ELSE Divide(sprint.pointsCompleted, availableDays)

baselineToVelocityPerDay(baselineVelocity, sprintLengthDays) ==
    Divide(baselineVelocity, sprintLengthDays)

\* Array.prototype.slice(0, end)
Slice(s, end) == SubSeq(s, 1, IF Len(s) < end THEN Len(s) ELSE end)

\* Variants of selectDataPoints: the baseline is tested for truthiness, so
\* that 0 counts as absent; the baseline is still included at 5 history values.
selectDataPointsTruthy(sprintVelocities, baselineVelocityPerDay) ==
    LET sprintDataPoints == Slice(sprintVelocities, MAX_DATA_POINTS)
        shouldIncludeBaseline ==
            /\ baselineVelocityPerDay # Undefined
            /\ baselineVelocityPerDay # Num(0)
            /\ Len(sprintDataPoints) < MAX_DATA_POINTS
    IN  IF shouldIncludeBaseline
        THEN [dataPoints |-> Append(sprintDataPoints, baselineVelocityPerDay),
              includesBaseline |-> TRUE]
        ELSE [dataPoints |-> sprintDataPoints, includesBaseline |-> FALSE]

selectDataPointsInclusive(sprintVelocities, baselineVelocityPerDay) ==
    LET sprintDataPoints == Slice(sprintVelocities, MAX_DATA_POINTS)
        shouldIncludeBaseline ==
            /\ baselineVelocityPerDay # Undefined
            /\ Len(sprintDataPoints) <= MAX_DATA_POINTS
    IN  IF shouldIncludeBaseline
        THEN [dataPoints |-> Append(sprintDataPoints, baselineVelocityPerDay),
              includesBaseline |-> TRUE]
        ELSE [dataPoints |-> sprintDataPoints, includesBaseline |-> FALSE]

\* Variant of selectDataPoints: the baseline is appended whenever one is
\* supplied, whatever the number of history values.
selectDataPointsAlwaysBaseline(sprintVelocities, baselineVelocityPerDay) ==
    LET sprintDataPoints == Slice(sprintVelocities, MAX_DATA_POINTS)
        shouldIncludeBaseline == baselineVelocityPerDay # Undefined
    IN  IF shouldIncludeBaseline
        THEN [dataPoints |-> Append(sprintDataPoints, baselineVelocityPerDay),
              includesBaseline |-> TRUE]
        ELSE [dataPoints |-> sprintDataPoints, includesBaseline |-> FALSE]

\* Variant of selectDataPoints: the window is the last five values of the
\* input, not the first five.
selectDataPointsLastFive(sprintVelocities, baselineVelocityPerDay) ==
    LET n == Len(sprintVelocities)
        sprintDataPoints ==
            SubSeq(sprintVelocities,
                   IF n > MAX_DATA_POINTS THEN n - MAX_DATA_POINTS + 1 ELSE 1, n)
        shouldIncludeBaseline ==
            /\ baselineVelocityPerDay # Undefined
            /\ Len(sprintDataPoints) < MAX_DATA_POINTS
    IN  IF shouldIncludeBaseline
        THEN [dataPoints |-> Append(sprintDataPoints, baselineVelocityPerDay),
              includesBaseline |-> TRUE]
        ELSE [dataPoints |-> sprintDataPoints, includesBaseline |-> FALSE]

selectDataPoints(sprintVelocities, baselineVelocityPerDay) ==
    LET sprintDataPoints == Slice(sprintVelocities, MAX_DATA_POINTS)
        shouldIncludeBaseline ==
            /\ baselineVelocityPerDay # Undefined
            /\ Len(sprintDataPoints) < MAX_DATA_POINTS
    IN  IF shouldIncludeBaseline
        THEN [dataPoints |-> Append(sprintDataPoints, baselineVelocityPerDay),
              includesBaseline |-> TRUE]
        ELSE [dataPoints |-> sprintDataPoints, includesBaseline |-> FALSE]

\* dataPoints.reduce((acc, val) => acc + val, acc0), left to right
RECURSIVE ReduceSum(_, _)
ReduceSum(dataPoints, acc) ==
    IF dataPoints = <<>>
    THEN acc
    ELSE ReduceSum(Tail(dataPoints), Plus(acc, Head(dataPoints)))

\* Variant of calculateAverageVelocity: the empty list averages to 0.
calculateAverageVelocityZeroForEmpty(dataPoints) ==
    IF Len(dataPoints) = 0
    THEN Num(0)
    ELSE LET sum == ReduceSum(dataPoints, Num(0))
         IN  Divide(sum, Num(Len(dataPoints)))

calculateAverageVelocity(dataPoints) ==
    IF Len(dataPoints) = 0
    THEN Null
    ELSE LET sum == ReduceSum(dataPoints, Num(0))
         IN  Divide(sum, Num(Len(dataPoints)))

\* Math.ceil, as a number
MathCeil(a) == Num(-((-a.n) \div a.d))

\* Variants of calculateSprintPlan: recommendedPoints is rounded up;
\* comparisonDelta is taken the other way round; only a negative availableDays
\* is rejected.
calculateSprintPlanCeil(averageVelocityPerDay, sprintLengthDays, developerCount, expectedLeaveDays) ==
    LET equivalentLeaveDays == Divide(expectedLeaveDays, developerCount)
        availableDays == Minus(sprintLengthDays, equivalentLeaveDays)
        recommendedPoints == MathCeil(Times(averageVelocityPerDay, availableDays))
        fullCapacityPoints == MathFloor(Times(averageVelocityPerDay, sprintLengthDays))
        comparisonDelta == Minus(recommendedPoints, fullCapacityPoints)
        capacityPercentage == Times(Divide(availableDays, sprintLengthDays), Num(100))
    IN  IF Less(availableDays, Num(1))
        THEN Null
        ELSE [recommendedPoints |-> recommendedPoints,
              fullCapacityPoints |-> fullCapacityPoints,
              comparisonDelta |-> comparisonDelta,
              capacityPercentage |-> capacityPercentage,
              availableDays |-> availableDays]

calculateSprintPlanFlippedDelta(averageVelocityPerDay, sprintLengthDays, developerCount, expectedLeaveDays) ==
    LET equivalentLeaveDays == Divide(expectedLeaveDays, developerCount)
        availableDays == Minus(sprintLengthDays, equivalentLeaveDays)
        recommendedPoints == MathFloor(Times(averageVelocityPerDay, availableDays))
        fullCapacityPoints == MathFloor(Times(averageVelocityPerDay, sprintLengthDays))
        comparisonDelta == Minus(fullCapacityPoints, recommendedPoints)
        capacityPercentage == Times(Divide(availableDays, sprintLengthDays), Num(100))
    IN  IF Less(availableDays, Num(1))
        THEN Null
        ELSE [recommendedPoints |-> recommendedPoints,
              fullCapacityPoints |-> fullCapacityPoints,
              comparisonDelta |-> comparisonDelta,
              capacityPercentage |-> capacityPercentage,
              availableDays |-> availableDays]

calculateSprintPlanNegativeGuard(averageVelocityPerDay, sprintLengthDays, developerCount, expectedLeaveDays) ==
    LET equivalentLeaveDays == Divide(expectedLeaveDays, developerCount)
        availableDays == Minus(sprintLengthDays, equivalentLeaveDays)
        recommendedPoints == MathFloor(Times(averageVelocityPerDay, availableDays))
        fullCapacityPoints == MathFloor(Times(averageVelocityPerDay, sprintLengthDays))
        comparisonDelta == Minus(recommendedPoints, fullCapacityPoints)
        capacityPercentage == Times(Divide(availableDays, sprintLengthDays), Num(100))
    IN  IF Less(availableDays, Num(0))
        THEN Null
        ELSE [recommendedPoints |-> recommendedPoints,
              fullCapacityPoints |-> fullCapacityPoints,
              comparisonDelta |-> comparisonDelta,
              capacityPercentage |-> capacityPercentage,
              availableDays |-> availableDays]

\* Variant of calculateSprintPlan: the equivalent leave days are added to
\* the sprint length.
calculateSprintPlanLeaveAdded(averageVelocityPerDay, sprintLengthDays, developerCount, expectedLeaveDays) ==
    LET equivalentLeaveDays == Divide(expectedLeaveDays, developerCount)
        availableDays == Plus(sprintLengthDays, equivalentLeaveDays)
        recommendedPoints == MathFloor(Times(averageVelocityPerDay, availableDays))
        fullCapacityPoints == MathFloor(Times(averageVelocityPerDay, sprintLengthDays))
        comparisonDelta == Minus(recommendedPoints, fullCapacityPoints)
        capacityPercentage == Times(Divide(availableDays, sprintLengthDays), Num(100))
    IN  IF Less(availableDays, Num(1))
        THEN Null
        ELSE [recommendedPoints |-> recommendedPoints,
              fullCapacityPoints |-> fullCapacityPoints,
              comparisonDelta |-> comparisonDelta,
              capacityPercentage |-> capacityPercentage,
              availableDays |-> availableDays]

calculateSprintPlan(averageVelocityPerDay, sprintLengthDays, developerCount, expectedLeaveDays) ==
    LET equivalentLeaveDays == Divide(expectedLeaveDays, developerCount)
        availableDays == Minus(sprintLengthDays, equivalentLeaveDays)
        recommendedPoints == MathFloor(Times(averageVelocityPerDay, availableDays))
        fullCapacityPoints == MathFloor(Times(averageVelocityPerDay, sprintLengthDays))
        comparisonDelta == Minus(recommendedPoints, fullCapacityPoints)
        capacityPercentage == Times(Divide(availableDays, sprintLengthDays), Num(100))
    IN  IF Less(availableDays, Num(1))
        THEN Null
        ELSE [recommendedPoints |-> recommendedPoints,
              fullCapacityPoints |-> fullCapacityPoints,
              comparisonDelta |-> comparisonDelta,
              capacityPercentage |-> capacityPercentage,
              availableDays |-> availableDays]

----------------------------------------------------------------------------
(* The composable useVelocityCalculator(sprints, team) *)

\* Array.prototype.map(f) followed by .filter(v => v !== null), for
\* f = calculateSprintVelocityPerDay
\* Variant of MapFilterVelocities: the filter keeps truthy values only, so a
\* velocity of 0 is dropped with the nulls.
RECURSIVE MapFilterVelocitiesTruthy(_)
MapFilterVelocitiesTruthy(sprintList) ==
    IF sprintList = <<>>
    THEN <<>>
    ELSE LET v == calculateSprintVelocityPerDay(Head(sprintList))
             rest == MapFilterVelocitiesTruthy(Tail(sprintList))
         IN  IF v # Null /\ v # Num(0) THEN <<v>> \o rest ELSE rest

RECURSIVE MapFilterVelocities(_)
MapFilterVelocities(sprintList) ==
    IF sprintList = <<>>
    THEN <<>>
    ELSE LET v == calculateSprintVelocityPerDay(Head(sprintList))
             rest == MapFilterVelocities(Tail(sprintList))
         IN  IF v # Null THEN <<v>> \o rest ELSE rest

\* Variant of velocityResult: the baseline, in points per sprint, is used
\* without converting it to points per day.
velocityResultRawBaseline(sprintList, teamData) ==
    LET sprintVelocities == MapFilterVelocities(sprintList)
        baselineVelocityPerDay == teamData.baselineVelocity
        selected == selectDataPoints(sprintVelocities, baselineVelocityPerDay)
        dataPoints == selected.dataPoints
        includesBaseline == selected.includesBaseline
    IN  IF Len(dataPoints) = 0
        THEN Null
        ELSE [averageVelocityPerDay |-> calculateAverageVelocity(dataPoints),
              dataPointCount |-> Len(dataPoints),
              includesBaseline |-> includesBaseline,
              velocityDataPoints |-> dataPoints]

\* Variant of MapFilterVelocities: every sprint is normalized with the given
\* sprint length and developer count in place of its own snapshot.
RECURSIVE MapFilterVelocitiesWithConfig(_, _, _)
MapFilterVelocitiesWithConfig(sprintList, sprintLengthDays, developerCount) ==
    IF sprintList = <<>>
    THEN <<>>
    ELSE LET v == calculateSprintVelocityPerDay(
                      [Head(sprintList) EXCEPT !.sprintLengthDays = sprintLengthDays,
                                               !.developerCount = developerCount])
             rest == MapFilterVelocitiesWithConfig(Tail(sprintList), sprintLengthDays,
                                                   developerCount)
         IN  IF v # Null THEN <<v>> \o rest ELSE rest

\* Variant of velocityResult: sprints are normalized with the team's current
\* sprint length and developer count.
velocityResultCurrentConfig(sprintList, teamData) ==
    LET sprintVelocities ==
            MapFilterVelocitiesWithConfig(sprintList, teamData.sprintLengthDays,
                                          teamData.developerCount)
        baselineVelocityPerDay ==
            IF teamData.baselineVelocity # Undefined
            THEN baselineToVelocityPerDay(teamData.baselineVelocity,
                                          teamData.sprintLengthDays)
            ELSE Undefined
        selected == selectDataPoints(sprintVelocities, baselineVelocityPerDay)
        dataPoints == selected.dataPoints
        includesBaseline == selected.includesBaseline
    IN  IF Len(dataPoints) = 0
        THEN Null
        ELSE [averageVelocityPerDay |-> calculateAverageVelocity(dataPoints),
              dataPointCount |-> Len(dataPoints),
              includesBaseline |-> includesBaseline,
              velocityDataPoints |-> dataPoints]

\* Variant of velocityResult: a slot of the window is kept for the baseline,
\* so that at most four sprint values are selected next to it.
velocityResultReservedSlot(sprintList, teamData) ==
    LET sprintVelocities == MapFilterVelocities(sprintList)
        baselineVelocityPerDay ==
            IF teamData.baselineVelocity # Undefined
            THEN baselineToVelocityPerDay(teamData.baselineVelocity,
                                          teamData.sprintLengthDays)
            ELSE Undefined
        selected ==
            IF baselineVelocityPerDay # Undefined
            THEN selectDataPoints(Slice(sprintVelocities, MAX_DATA_POINTS - 1),
                                  baselineVelocityPerDay)
            ELSE selectDataPoints(sprintVelocities, baselineVelocityPerDay)
        dataPoints == selected.dataPoints
        includesBaseline == selected.includesBaseline
    IN  IF Len(dataPoints) = 0
        THEN Null
        ELSE [averageVelocityPerDay |-> calculateAverageVelocity(dataPoints),
              dataPointCount |-> Len(dataPoints),
              includesBaseline |-> includesBaseline,
              velocityDataPoints |-> dataPoints]

\* Variant of velocityResult: the window is cut from the sprint list before
\* the unusable sprints are removed.
velocityResultWindowFirst(sprintList, teamData) ==
    LET sprintVelocities == MapFilterVelocities(Slice(sprintList, MAX_DATA_POINTS))
        baselineVelocityPerDay ==
            IF teamData.baselineVelocity # Undefined
            THEN baselineToVelocityPerDay(teamData.baselineVelocity,
                                          teamData.sprintLengthDays)
            ELSE Undefined
        selected ==
            IF Len(sprintList) < MAX_DATA_POINTS
            THEN selectDataPoints(sprintVelocities, baselineVelocityPerDay)
            ELSE selectDataPoints(sprintVelocities, Undefined)
        dataPoints == selected.dataPoints
        includesBaseline == selected.includesBaseline
    IN  IF Len(dataPoints) = 0
        THEN Null
        ELSE [averageVelocityPerDay |-> calculateAverageVelocity(dataPoints),
              dataPointCount |-> Len(dataPoints),
              includesBaseline |-> includesBaseline,
              velocityDataPoints |-> dataPoints]

\* Variant of velocityResult: the baseline is tested for truthiness, so that
\* a baseline of 0 is taken for no baseline.
velocityResultTruthyBaseline(sprintList, teamData) ==
    LET sprintVelocities == MapFilterVelocities(sprintList)
        baselineVelocityPerDay ==
            IF teamData.baselineVelocity # Undefined /\ teamData.baselineVelocity # Num(0)
            THEN baselineToVelocityPerDay(teamData.baselineVelocity,
                                          teamData.sprintLengthDays)
            ELSE Undefined
        selected == selectDataPoints(sprintVelocities, baselineVelocityPerDay)
        dataPoints == selected.dataPoints
        includesBaseline == selected.includesBaseline
    IN  IF Len(dataPoints) = 0
        THEN Null
        ELSE [averageVelocityPerDay |-> calculateAverageVelocity(dataPoints),
              dataPointCount |-> Len(dataPoints),
              includesBaseline |-> includesBaseline,
              velocityDataPoints |-> dataPoints]

velocityResult(sprintList, teamData) ==
    LET sprintVelocities == MapFilterVelocities(sprintList)
        baselineVelocityPerDay ==
            IF teamData.baselineVelocity # Undefined
            THEN baselineToVelocityPerDay(teamData.baselineVelocity,
                                          teamData.sprintLengthDays)
            ELSE Undefined
        selected == selectDataPoints(sprintVelocities, baselineVelocityPerDay)
        dataPoints == selected.dataPoints
        includesBaseline == selected.includesBaseline
    IN  IF Len(dataPoints) = 0
        THEN Null
        ELSE [averageVelocityPerDay |-> calculateAverageVelocity(dataPoints),
              dataPointCount |-> Len(dataPoints),
              includesBaseline |-> includesBaseline,
              velocityDataPoints |-> dataPoints]

\* Variant of hasData: the average is tested for truthiness, so that an
\* average of 0 counts as no data.
hasDataTruthyAverage(sprintList, teamData) ==
    LET result == velocityResult(sprintList, teamData)
    IN  result # Null /\ result.averageVelocityPerDay # Num(0)

hasData(sprintList, teamData) == velocityResult(sprintList, teamData) # Null

dataSourceDescription(sprintList, teamData) ==
    LET result == velocityResult(sprintList, teamData)
        sprintCount ==
            IF result.includesBaseline
            THEN result.dataPointCount - 1
            ELSE result.dataPointCount
        sprintText ==
            IF sprintCount = 1 THEN "1 sprint" ELSE ToString(sprintCount) \o " sprints"
    IN  IF result = Null
        THEN "No velocity data available"
        ELSE IF sprintCount = 0 /\ result.includesBaseline
        THEN "Based on baseline estimate"
        ELSE IF result.includesBaseline
        THEN "Based on " \o sprintText \o " + baseline"
        ELSE "Based on " \o sprintText

calculatePlan(sprintList, teamData, expectedLeaveDays) ==
    LET result == velocityResult(sprintList, teamData)
    IN  IF result = Null \/ result.averageVelocityPerDay = Null
        THEN Null
        ELSE calculateSprintPlan(result.averageVelocityPerDay,
                                 teamData.sprintLengthDays,
                                 teamData.developerCount,
                                 expectedLeaveDays)

----------------------------------------------------------------------------
(* Inputs *)

SprintLengths == {Num(i) : i \in 1..MaxSprintLength}
DeveloperCounts == {Num(i) : i \in 1..MaxDevelopers}
Leaves == {Half(i) : i \in 0..(2 * MaxLeave)}
Points == {Half(i) : i \in 0..(2 * MaxPoints)}
Velocities == {Rat(i, j) : i \in 0..MaxVelocityNum, j \in 1..MaxVelocityDen}

\* Sprint, reduced to the fields the engine reads
Sprints ==
    [pointsCompleted : Points, leaveDays : Leaves,
     sprintLengthDays : SprintLengths, developerCount : DeveloperCounts]

SeqsUpTo(S, k) == UNION {[1..m -> S] : m \in 0..k}

HistoryVelocities == {Half(i) : i \in 0..MaxHistoryVelocity}
VelocityLists == SeqsUpTo(HistoryVelocities, MaxHistory)
\* an absent baseline, a zero one, ordinary ones and an extreme one
BaselinesPerDay == {Undefined, Num(0), Half(1), Half(5), Num(100)}

\* the sprints a team's history is drawn from: a zero-point sprint with no
\* leave (0 per day), a sprint with 1.5 available days (4/3 per day) and a
\* sprint with 0.5 available days (unusable)
HistorySprints ==
    {[pointsCompleted |-> Num(0), leaveDays |-> Num(0),
      sprintLengthDays |-> Num(2), developerCount |-> Num(1)],
     [pointsCompleted |-> Num(2), leaveDays |-> Num(3),
      sprintLengthDays |-> Num(3), developerCount |-> Num(2)],
     [pointsCompleted |-> Num(3), leaveDays |-> Num(3),
      sprintLengthDays |-> Num(2), developerCount |-> Num(2)]}
SprintLists == SeqsUpTo(HistorySprints, MaxHistory)

\* Team, reduced to the fields the engine reads; baselineVelocity is in
\* points per sprint
Teams ==
    [developerCount : {Num(1), Num(MaxDevelopers)}, sprintLengthDays : SprintLengths,
     baselineVelocity : {Undefined, Num(0), Num(MaxPoints)}]

\* the leave values a plan is asked for through the composable
PlanLeaves == {Num(0), Num(MaxLeave)}

----------------------------------------------------------------------------
(* Invocations *)

\* an invocation of f that has not run yet: pc is "called" until the function
\* has run and "returned" afterwards, when ret holds what it returned
\* the engine reads no document: the collections play no part in a call
NoStore ==
    /\ teamDocs = <<>>
    /\ sprintDocs = <<>>
    /\ deleteTeamBatch = <<>>
    /\ lastCall = Undefined
    /\ view = Undefined

Invocation(f, a) ==
    /\ fn = f
    /\ args \in a
    /\ pc = "called"
    /\ ret = Undefined
    /\ NoStore

\* the pure helper functions, each called on its own
Init ==
    \/ Invocation("calculateSprintVelocityPerDay", [sprint : Sprints])
    \/ Invocation("baselineToVelocityPerDay",
                  [baselineVelocity : Points, sprintLengthDays : SprintLengths])
    \/ Invocation("selectDataPoints",
                  [sprintVelocities : VelocityLists,
                   baselineVelocityPerDay : BaselinesPerDay])
    \/ Invocation("calculateAverageVelocity", [dataPoints : VelocityLists])
    \/ Invocation("calculateSprintPlan",
                  [averageVelocityPerDay : Velocities,
                   sprintLengthDays : SprintLengths,
                   developerCount : DeveloperCounts,
                   expectedLeaveDays : Leaves])

\* the values and the function the composable returns, for one sprint list
\* and one team
InitComposable ==
    \/ Invocation("velocityResult", [sprints : SprintLists, team : Teams])
    \/ Invocation("hasData", [sprints : SprintLists, team : Teams])
    \/ Invocation("dataSourceDescription", [sprints : SprintLists, team : Teams])
    \/ Invocation("calculatePlan",
                  [sprints : SprintLists, team : Teams,
                   expectedLeaveDays : PlanLeaves])

CallCalculateSprintVelocityPerDay ==
    /\ fn = "calculateSprintVelocityPerDay"
    /\ pc = "called"
    /\ pc' = "returned"
    /\ ret' = calculateSprintVelocityPerDay(args.sprint)
    /\ UNCHANGED <<fn, args, storeVars, view>>

CallBaselineToVelocityPerDay ==
    /\ fn = "baselineToVelocityPerDay"
    /\ pc = "called"
    /\ pc' = "returned"
    /\ ret' = baselineToVelocityPerDay(args.baselineVelocity, args.sprintLengthDays)
    /\ UNCHANGED <<fn, args, storeVars, view>>

CallSelectDataPoints ==
    /\ fn = "selectDataPoints"
    /\ pc = "called"
    /\ pc' = "returned"
    /\ ret' = selectDataPoints(args.sprintVelocities, args.baselineVelocityPerDay)
    /\ UNCHANGED <<fn, args, storeVars, view>>

CallCalculateAverageVelocity ==
    /\ fn = "calculateAverageVelocity"
    /\ pc = "called"
    /\ pc' = "returned"
    /\ ret' = calculateAverageVelocity(args.dataPoints)
    /\ UNCHANGED <<fn, args, storeVars, view>>

CallCalculateSprintPlan ==
    /\ fn = "calculateSprintPlan"
    /\ pc = "called"
    /\ pc' = "returned"
    /\ ret' = calculateSprintPlan(args.averageVelocityPerDay, args.sprintLengthDays,
                                  args.developerCount, args.expectedLeaveDays)
    /\ UNCHANGED <<fn, args, storeVars, view>>

ReadVelocityResult ==
    /\ fn = "velocityResult"
    /\ pc = "called"
    /\ pc' = "returned"
    /\ ret' = velocityResult(args.sprints, args.team)
    /\ UNCHANGED <<fn, args, storeVars, view>>

ReadHasData ==
    /\ fn = "hasData"
    /\ pc = "called"
    /\ pc' = "returned"
    /\ ret' = hasData(args.sprints, args.team)
    /\ UNCHANGED <<fn, args, storeVars, view>>

ReadDataSourceDescription ==
    /\ fn = "dataSourceDescription"
    /\ pc = "called"
    /\ pc' = "returned"
    /\ ret' = dataSourceDescription(args.sprints, args.team)
    /\ UNCHANGED <<fn, args, storeVars, view>>

CallCalculatePlan ==
    /\ fn = "calculatePlan"
    /\ pc = "called"
    /\ pc' = "returned"
    /\ ret' = calculatePlan(args.sprints, args.team, args.expectedLeaveDays)
    /\ UNCHANGED <<fn, args, storeVars, view>>

Next ==
    \/ CallCalculateSprintVelocityPerDay
    \/ CallBaselineToVelocityPerDay
    \/ CallSelectDataPoints
    \/ CallCalculateAverageVelocity
    \/ CallCalculateSprintPlan

NextComposable ==
    \/ ReadVelocityResult
    \/ ReadHasData
    \/ ReadDataSourceDescription
    \/ CallCalculatePlan

Spec == Init /\ [][Next]_vars

SpecComposable == InitComposable /\ [][NextComposable]_vars

\* The selection of data points, called directly and through velocityResult
InitSelection ==
    \/ Invocation("selectDataPoints",
                  [sprintVelocities : VelocityLists,
                   baselineVelocityPerDay : BaselinesPerDay])
    \/ Invocation("velocityResult", [sprints : SprintLists, team : Teams])

NextSelection ==
    \/ CallSelectDataPoints
    \/ ReadVelocityResult

SpecSelection == InitSelection /\ [][NextSelection]_vars

----------------------------------------------------------------------------
(* Firestore collections, the forms that write to them, and deleteTeam *)

\* a string value of a form field or document; '' is a cleared input
Str(s) == [string |-> s]
EmptyString == Str("")
\* the deleteField() sentinel of an update
DeleteField == [deleteField |-> TRUE]
\* a document id that addDoc has not handed out yet, and a deleted document
Unused == [unused |-> TRUE]
Deleted == [deleted |-> TRUE]
Exists(document) == document # Unused /\ document # Deleted

\* document ids; addDoc hands out the sprint ids in this order
TeamIds == {"t1", "t2"}
SprintIdOrder == <<"s1", "s2">>
SprintIds == {SprintIdOrder[i] : i \in DOMAIN SprintIdOrder}

\* the longest sprint a team form accepts, in days
SprintLengthLimit == 30

\* typeof value === 'number'
IsNumberValue(value) == "n" \in DOMAIN value
\* Number.isInteger: false for what is not a number
NumberIsInteger(x) == IsNumberValue(x) /\ x.d = 1
\* the number a relational operator compares in place of a value: '' is 0
ToNumber(value) == IF value = EmptyString THEN Num(0) ELSE value
\* value === null || value === undefined || value === ''
IsBlank(value) == value = Null \/ value = Undefined \/ value = EmptyString

\* updateDoc(ref, data): the fields of data replace or extend those of the
\* document, and a field given as deleteField() is removed
Merge(document, data) ==
    [k \in DOMAIN document \cup DOMAIN data |->
        IF k \in DOMAIN data
        THEN IF data[k] = DeleteField THEN Undefined ELSE data[k]
        ELSE document[k]]

\* teamStore.getTeamById(id) and the sprint a modal is opened for
TeamValue(t) == IF Exists(teamDocs[t]) THEN teamDocs[t] ELSE Undefined

\* the id addDoc gives the next sprint document
FreshIndex == CHOOSE i \in DOMAIN SprintIdOrder :
                  /\ sprintDocs[SprintIdOrder[i]] = Unused
                  /\ \A j \in 1..(i - 1) : sprintDocs[SprintIdOrder[j]] # Unused
FreshId == SprintIdOrder[FreshIndex]

\* the values a user can leave in the fields of the sprint forms; an end
\* date is the number of days from today, '' when not chosen
EndDateInputs == {EmptyString, Num(0 - 1), Num(1)}
PointsInputs == {Null, Num(0 - 1), Num(0), Num(MaxPoints)}
LeaveInputs == {Null, EmptyString, Num(0 - 1), Num(0), Num(2), Half(5), Num(MaxLeave)}
SprintForms ==
    [endDate : EndDateInputs, pointsCompleted : PointsInputs, leaveDays : LeaveInputs]

\* the values a user can leave in the fields of the team form
TeamForms ==
    [name : {EmptyString, Str("Raptors")},
     memberCount : {EmptyString, Num(1), Num(MaxDevelopers)},
     developerCount : {Null, Num(0), Half(3), Num(1), Num(MaxDevelopers)},
     sprintLengthDays : {Num(0), Num(1), Num(MaxSprintLength), Num(SprintLengthLimit + 1)},
     baselineVelocity : {Null, EmptyString, Num(0 - 1), Num(0), Num(MaxPoints)}]

\* the team documents CreateTeamModal and EditTeamModal can have written
TeamDocuments ==
    {team \in [name : {Str("Raptors")},
               memberCount : {Num(1), Num(MaxDevelopers)},
               developerCount : {Num(1), Num(MaxDevelopers)},
               sprintLengthDays : {Num(1), Num(MaxSprintLength)},
               baselineVelocity : {Undefined, Num(0)}] :
        ~Less(team.memberCount, team.developerCount)}

\* validation of the sprint forms: TRUE when the field has an error
endDateError(endDate) ==
    \/ endDate = EmptyString
    \/ Less(Num(0), endDate)

pointsCompletedError(pointsCompleted) ==
    \/ IsBlank(pointsCompleted)
    \/ Less(pointsCompleted, Num(0))

\* Variant of LogSprintView_leaveDaysError: the leave is refused only when
\* no available day is left.
LogSprintView_leaveDaysErrorZeroGuard(leaveDays, team) ==
    \/ IsBlank(leaveDays)
    \/ Less(leaveDays, Num(0))
    \/ /\ team # Undefined
       /\ Less(Num(0), team.developerCount)
       /\ ~Less(Num(0), Minus(team.sprintLengthDays,
                              Divide(leaveDays, team.developerCount)))

LogSprintView_leaveDaysError(leaveDays, team) ==
    \/ IsBlank(leaveDays)
    \/ Less(leaveDays, Num(0))
    \/ /\ team # Undefined
       /\ Less(Num(0), team.developerCount)
       /\ Less(Minus(team.sprintLengthDays, Divide(leaveDays, team.developerCount)),
               Num(1))

EditSprintModal_leaveDaysError(leaveDays, sprint) ==
    \/ IsBlank(leaveDays)
    \/ Less(leaveDays, Num(0))
    \/ /\ Less(Num(0), sprint.developerCount)
       /\ Less(Minus(sprint.sprintLengthDays,
                     Divide(leaveDays, sprint.developerCount)),
               Num(1))

\* the sprint LogSprintView passes to addSprint
LogSprintView_sprintData(t, form, team) ==
    [teamId |-> t,
     endDate |-> form.endDate,
     pointsCompleted |-> form.pointsCompleted,
     leaveDays |-> form.leaveDays,
     sprintLengthDays |-> team.sprintLengthDays,
     developerCount |-> team.developerCount]

\* Variant of EditSprintModal_sprintData: the snapshot fields are refreshed
\* from the team's current configuration.
EditSprintModal_sprintDataWithSnapshot(sprint, form) ==
    [endDate |-> form.endDate,
     pointsCompleted |-> form.pointsCompleted,
     leaveDays |-> form.leaveDays,
     sprintLengthDays |-> teamDocs[sprint.teamId].sprintLengthDays,
     developerCount |-> teamDocs[sprint.teamId].developerCount]

\* the fields EditSprintModal passes to updateSprint
EditSprintModal_sprintData(sprint, form) ==
    [endDate |-> form.endDate,
     pointsCompleted |-> form.pointsCompleted,
     leaveDays |-> form.leaveDays]

\* validation of the team form: TRUE when the field has an error
nameError(name) == name = EmptyString

memberCountError(memberCount) ==
    \/ IsBlank(memberCount)
    \/ ~NumberIsInteger(memberCount)
    \/ Less(memberCount, Num(1))

developerCountError(developerCount, memberCount) ==
    \/ IsBlank(developerCount)
    \/ ~NumberIsInteger(developerCount)
    \/ Less(developerCount, Num(1))
    \/ (memberCount # Null /\ Less(ToNumber(memberCount), developerCount))

sprintLengthError(sprintLengthDays) ==
    \/ IsBlank(sprintLengthDays)
    \/ ~NumberIsInteger(sprintLengthDays)
    \/ Less(sprintLengthDays, Num(1))
    \/ Less(Num(SprintLengthLimit), sprintLengthDays)

baselineVelocityError(baselineVelocity) ==
    /\ baselineVelocity # Null
    /\ baselineVelocity # Undefined
    /\ IsNumberValue(baselineVelocity)
    /\ Less(baselineVelocity, Num(0))

EditTeamModal_isFormValid(form) ==
    /\ ~nameError(form.name)
    /\ ~memberCountError(form.memberCount)
    /\ ~developerCountError(form.developerCount, form.memberCount)
    /\ ~sprintLengthError(form.sprintLengthDays)
    /\ ~baselineVelocityError(form.baselineVelocity)

\* Variant of EditTeamModal_updateData: a cleared baseline field is written
\* as 0.
EditTeamModal_updateDataZeroWhenCleared(team, form) ==
    [name |-> form.name,
     memberCount |-> form.memberCount,
     developerCount |-> form.developerCount,
     sprintLengthDays |-> form.sprintLengthDays,
     baselineVelocity |-> IF IsBlank(form.baselineVelocity)
                          THEN Num(0)
                          ELSE form.baselineVelocity]

\* the fields EditTeamModal passes to updateTeam
EditTeamModal_updateData(team, form) ==
    LET required == [name |-> form.name,
                     memberCount |-> form.memberCount,
                     developerCount |-> form.developerCount,
                     sprintLengthDays |-> form.sprintLengthDays]
        baselineIsEmpty == IsBlank(form.baselineVelocity)
    IN  IF ~baselineIsEmpty
        THEN Merge(required, [baselineVelocity |-> form.baselineVelocity])
        ELSE IF team.baselineVelocity # Undefined /\ team.baselineVelocity # Null
             THEN required @@ [baselineVelocity |-> DeleteField]
             ELSE required

\* validation of CreateTeamModal: TRUE when the field has an error; the
\* name is checked as in EditTeamModal
CreateTeamModal_memberCountError(memberCount) ==
    \/ memberCount = Null
    \/ memberCount = Undefined
    \/ ~NumberIsInteger(memberCount)
    \/ Less(memberCount, Num(1))

CreateTeamModal_developerCountError(developerCount, memberCount) ==
    \/ developerCount = Null
    \/ developerCount = Undefined
    \/ ~NumberIsInteger(developerCount)
    \/ Less(developerCount, Num(1))
    \/ (memberCount # Null /\ Less(ToNumber(memberCount), developerCount))

CreateTeamModal_sprintLengthError(sprintLengthDays) ==
    \/ sprintLengthDays = Null
    \/ sprintLengthDays = Undefined
    \/ ~NumberIsInteger(sprintLengthDays)
    \/ Less(sprintLengthDays, Num(1))
    \/ Less(Num(SprintLengthLimit), sprintLengthDays)

CreateTeamModal_baselineVelocityError(baselineVelocity) ==
    /\ baselineVelocity # Null
    /\ baselineVelocity # Undefined
    /\ Less(ToNumber(baselineVelocity), Num(0))

CreateTeamModal_isFormValid(form) ==
    /\ ~nameError(form.name)
    /\ ~CreateTeamModal_memberCountError(form.memberCount)
    /\ ~CreateTeamModal_developerCountError(form.developerCount, form.memberCount)
    /\ ~CreateTeamModal_sprintLengthError(form.sprintLengthDays)
    /\ ~CreateTeamModal_baselineVelocityError(form.baselineVelocity)

\* the team CreateTeamModal passes to addTeam
CreateTeamModal_teamData(form) ==
    LET required == [name |-> form.name,
                     memberCount |-> form.memberCount,
                     developerCount |-> form.developerCount,
                     sprintLengthDays |-> form.sprintLengthDays]
    IN  IF form.baselineVelocity # Null /\ form.baselineVelocity # Undefined
        THEN Merge(required, [baselineVelocity |-> form.baselineVelocity])
        ELSE required

\* the ids addDoc gives the team documents, in order of creation
TeamIdOrder == <<"t1", "t2">>
FreshTeamIndex == CHOOSE i \in DOMAIN TeamIdOrder :
                      /\ teamDocs[TeamIdOrder[i]] = Unused
                      /\ \A j \in 1..(i - 1) : teamDocs[TeamIdOrder[j]] # Unused
FreshTeamId == TeamIdOrder[FreshTeamIndex]

\* no call of an engine function is part of the store behaviours
NoInvocation ==
    /\ fn = "none"
    /\ args = Undefined
    /\ pc = "returned"
    /\ ret = Undefined

\* one team with any valid configuration and no sprint yet
InitForms ==
    /\ NoInvocation
    /\ \E team \in TeamDocuments :
           teamDocs = [t \in TeamIds |-> IF t = "t1" THEN team ELSE Unused]
    /\ sprintDocs = [id \in SprintIds |-> Unused]
    /\ deleteTeamBatch = [t \in TeamIds |-> Null]
    /\ lastCall = Undefined
    /\ view = Undefined

\* two teams and no sprint yet
InitStore ==
    /\ NoInvocation
    /\ teamDocs \in [TeamIds -> {team \in TeamDocuments :
                                    /\ team.memberCount = Num(1)
                                    /\ team.baselineVelocity = Undefined}]
    /\ sprintDocs = [id \in SprintIds |-> Unused]
    /\ deleteTeamBatch = [t \in TeamIds |-> Null]
    /\ lastCall = Undefined
    /\ view = Undefined

\* LogSprintView.handleSubmit up to sprintStore.addSprint; the form is valid
\* when no field has an error
LogSprintSubmit ==
    \E t \in TeamIds :
        LET team == TeamValue(t)
        IN  /\ team # Undefined
            /\ \E id \in SprintIds : sprintDocs[id] = Unused
            /\ \E endDate \in EndDateInputs :
                 /\ ~endDateError(endDate)
                 /\ \E pointsCompleted \in PointsInputs :
                      /\ ~pointsCompletedError(pointsCompleted)
                      /\ \E leaveDays \in LeaveInputs, confirmed \in BOOLEAN :
                           LET form == [endDate |-> endDate,
                                        pointsCompleted |-> pointsCompleted,
                                        leaveDays |-> leaveDays]
                               sprintData == LogSprintView_sprintData(t, form, team)
                           IN  /\ ~LogSprintView_leaveDaysError(leaveDays, team)
                               /\ pointsCompleted = Num(0) => confirmed
                               /\ sprintDocs' =
                                      [sprintDocs EXCEPT ![FreshId] = sprintData]
                               /\ lastCall' = [fn |-> "addSprint", id |-> FreshId,
                                               fields |-> DOMAIN sprintData]
                               /\ UNCHANGED <<engineVars, view, teamDocs, deleteTeamBatch>>

\* EditSprintModal.handleSubmit up to sprintStore.updateSprint
EditSprintSubmit ==
    \E id \in SprintIds :
        LET sprint == sprintDocs[id]
        IN  /\ Exists(sprint)
            /\ \E endDate \in EndDateInputs :
                 /\ ~endDateError(endDate)
                 /\ \E pointsCompleted \in PointsInputs :
                      /\ ~pointsCompletedError(pointsCompleted)
                      /\ \E leaveDays \in LeaveInputs, confirmed \in BOOLEAN :
                           LET form == [endDate |-> endDate,
                                        pointsCompleted |-> pointsCompleted,
                                        leaveDays |-> leaveDays]
                               sprintData == EditSprintModal_sprintData(sprint, form)
                           IN  /\ ~EditSprintModal_leaveDaysError(leaveDays, sprint)
                               /\ pointsCompleted = Num(0) => confirmed
                               /\ sprintDocs' =
                                      [sprintDocs EXCEPT
                                           ![id] = Merge(sprint, sprintData)]
                               /\ lastCall' = [fn |-> "updateSprint", id |-> id,
                                               fields |-> DOMAIN sprintData]
                               /\ UNCHANGED <<engineVars, view, teamDocs, deleteTeamBatch>>

\* EditTeamModal.handleSubmit up to teamStore.updateTeam
EditTeamSubmit ==
    \E t \in TeamIds :
        LET team == TeamValue(t)
        IN  /\ team # Undefined
            /\ \E form \in {f \in TeamForms : EditTeamModal_isFormValid(f)} :
                 LET updateData == EditTeamModal_updateData(team, form)
                 IN  /\ teamDocs' = [teamDocs EXCEPT ![t] = Merge(team, updateData)]
                     /\ lastCall' = [fn |-> "updateTeam", id |-> t,
                                     fields |-> DOMAIN updateData]
                     /\ UNCHANGED <<engineVars, view, sprintDocs, deleteTeamBatch>>

\* CreateTeamModal.handleSubmit up to teamStore.addTeam; a team document
\* without baseline has baselineVelocity undefined
CreateTeamSubmit ==
    /\ \E t \in TeamIds : teamDocs[t] = Unused
    /\ \E form \in {f \in TeamForms : CreateTeamModal_isFormValid(f)} :
         LET teamData == CreateTeamModal_teamData(form)
         IN  /\ teamDocs' =
                    [teamDocs EXCEPT
                         ![FreshTeamId] = Merge([baselineVelocity |-> Undefined],
                                                teamData)]
             /\ lastCall' = [fn |-> "addTeam", id |-> FreshTeamId,
                             fields |-> DOMAIN teamData]
             /\ UNCHANGED <<engineVars, view, sprintDocs, deleteTeamBatch>>

\* deleteTeam(t) up to the end of its getDocs: the sprints of the team that
\* exist now are the ones its batch will delete
DeleteTeamQuery ==
    \E t \in TeamIds :
        /\ TeamValue(t) # Undefined
        /\ deleteTeamBatch[t] = Null
        /\ deleteTeamBatch' =
               [deleteTeamBatch EXCEPT
                    ![t] = [deletes |-> {id \in SprintIds :
                                            /\ Exists(sprintDocs[id])
                                            /\ sprintDocs[id].teamId = t}]]
        /\ lastCall' = [fn |-> "deleteTeam", id |-> t, fields |-> {}]
        /\ UNCHANGED <<engineVars, view, teamDocs, sprintDocs>>

\* deleteTeam(t) from its getDocs to the end: batch.commit() deletes the
\* sprints found and the team together, or fails and deletes nothing
DeleteTeamCommit ==
    \E t \in TeamIds, committed \in BOOLEAN :
        /\ deleteTeamBatch[t] # Null
        /\ deleteTeamBatch' = [deleteTeamBatch EXCEPT ![t] = Null]
        /\ IF committed
           THEN /\ sprintDocs' =
                       [id \in SprintIds |->
                           IF id \in deleteTeamBatch[t].deletes
                           THEN Deleted
                           ELSE sprintDocs[id]]
                /\ teamDocs' = [teamDocs EXCEPT ![t] = Deleted]
           ELSE UNCHANGED <<teamDocs, sprintDocs>>
        /\ UNCHANGED <<engineVars, view, lastCall>>

NextForms ==
    \/ LogSprintSubmit
    \/ EditSprintSubmit
    \/ EditTeamSubmit

NextStore ==
    \/ LogSprintSubmit
    \/ DeleteTeamQuery
    \/ DeleteTeamCommit

\* no team yet
InitTeams ==
    /\ NoInvocation
    /\ teamDocs = [t \in TeamIds |-> Unused]
    /\ sprintDocs = [id \in SprintIds |-> Unused]
    /\ deleteTeamBatch = [t \in TeamIds |-> Null]
    /\ lastCall = Undefined
    /\ view = Undefined

NextTeams ==
    \/ CreateTeamSubmit
    \/ EditTeamSubmit

SpecTeams == InitTeams /\ [][NextTeams]_vars

SpecForms == InitForms /\ [][NextForms]_vars

SpecStore == InitStore /\ [][NextStore]_vars

----------------------------------------------------------------------------
(* The sprint store's list of a team's sprints *)

\* the store's sprint list holds at most MaxStoredSprints sprints
MaxStoredSprints == 3
\* end dates are 1..MaxEndDate, in milliseconds
MaxEndDate == 3

\* the sprint list of the store (sprints.value): any sprints of two teams,
\* each with an id of its own; the fields getSprintsForTeam reads
StoredSprintLists ==
    {[i \in 1..Len(q) |-> [id |-> i, teamId |-> q[i].teamId, endDate |-> q[i].endDate]] :
        q \in SeqsUpTo([teamId : TeamIds, endDate : 1..MaxEndDate], MaxStoredSprints)}

\* the compare function of the sort: b.endDate.toMillis() - a.endDate.toMillis()
CompareEndDate(a, b) == b.endDate - a.endDate

\* Array.prototype.sort(compare), which is stable: x, which came after the
\* elements of sorted, goes behind every element that does not sort after it
InsertSorted(x, sorted) ==
    LET before == {i \in 1..Len(sorted) : CompareEndDate(sorted[i], x) <= 0}
        k == Cardinality(before)
    IN  SubSeq(sorted, 1, k) \o <<x>> \o SubSeq(sorted, k + 1, Len(sorted))

RECURSIVE Sort(_)
Sort(q) ==
    IF q = <<>>
    THEN <<>>
    ELSE InsertSorted(q[Len(q)], Sort(SubSeq(q, 1, Len(q) - 1)))

\* Array.prototype.filter with sprint.teamId === teamId
FilterByTeam(q, teamId) == SelectSeq(q, LAMBDA sprint : sprint.teamId = teamId)

\* Variant of getSprintsForTeam: the result is oldest first.
RECURSIVE Reversed(_)
Reversed(q) == IF q = <<>> THEN <<>> ELSE Append(Reversed(Tail(q)), Head(q))
getSprintsForTeamAscending(sprintList, teamId) ==
    Reversed(Sort(FilterByTeam(sprintList, teamId)))

getSprintsForTeam(sprintList, teamId) == Sort(FilterByTeam(sprintList, teamId))

InitSprintStore ==
    Invocation("getSprintsForTeam", [sprints : StoredSprintLists, teamId : TeamIds])

CallGetSprintsForTeam ==
    /\ fn = "getSprintsForTeam"
    /\ pc = "called"
    /\ pc' = "returned"
    /\ ret' = getSprintsForTeam(args.sprints, args.teamId)
    /\ UNCHANGED <<fn, args, storeVars, view>>

NextSprintStore == CallGetSprintsForTeam

SpecSprintStore == InitSprintStore /\ [][NextSprintStore]_vars

----------------------------------------------------------------------------
(* A form from handleSubmit to the settling of its store call *)

FormComponents == {"LogSprintView", "EditSprintModal", "CreateTeamModal", "EditTeamModal"}
SprintComponents == {"LogSprintView", "EditSprintModal"}
ModalComponents == {"EditSprintModal", "CreateTeamModal", "EditTeamModal"}

\* the team of the route, and of props.team; the sprint of props.sprint
RouteTeamId == "t1"
PropsSprintId == "s1"

\* what a rejected store call throws: an Error with a message, or
\* something else
Rejections == {[message |-> Str("unavailable")], Str("thrown")}

\* error instanceof Error ? error.message : fallback
ErrorMessage(error, fallback) ==
    IF "message" \in DOMAIN error THEN error.message ELSE fallback

FailureText(component) ==
    CASE component = "LogSprintView" -> Str("Failed to save sprint")
      [] component = "EditSprintModal" -> Str("Failed to update sprint")
      [] component = "CreateTeamModal" -> Str("Failed to create team")
      [] component = "EditTeamModal" -> Str("Failed to update team")

\* isFormValid of each component
isFormValid(component, form) ==
    CASE component = "LogSprintView" ->
             /\ ~endDateError(form.endDate)
             /\ ~pointsCompletedError(form.pointsCompleted)
             /\ ~LogSprintView_leaveDaysError(form.leaveDays,
                                              teamDocs[RouteTeamId])
      [] component = "EditSprintModal" ->
             /\ ~endDateError(form.endDate)
             /\ ~pointsCompletedError(form.pointsCompleted)
             /\ ~EditSprintModal_leaveDaysError(form.leaveDays,
                                                sprintDocs[PropsSprintId])
      [] component = "CreateTeamModal" -> CreateTeamModal_isFormValid(form)
      [] component = "EditTeamModal" -> EditTeamModal_isFormValid(form)

\* the number of fields of a team form that show an error
TeamFieldErrors(component, form) ==
    LET Count(error) == IF error THEN 1 ELSE 0
    IN  IF component = "CreateTeamModal"
        THEN Count(nameError(form.name))
             + Count(CreateTeamModal_memberCountError(form.memberCount))
             + Count(CreateTeamModal_developerCountError(form.developerCount,
                                                         form.memberCount))
             + Count(CreateTeamModal_sprintLengthError(form.sprintLengthDays))
             + Count(CreateTeamModal_baselineVelocityError(form.baselineVelocity))
        ELSE Count(nameError(form.name))
             + Count(memberCountError(form.memberCount))
             + Count(developerCountError(form.developerCount, form.memberCount))
             + Count(sprintLengthError(form.sprintLengthDays))
             + Count(baselineVelocityError(form.baselineVelocity))

\* the values the fields hold when the form is submitted: any sprint form,
\* and the team forms with at most one field in error
FormsOf(component) ==
    IF component \in SprintComponents
    THEN SprintForms
    ELSE {form \in TeamForms : TeamFieldErrors(component, form) <= 1}

\* Variant of ZeroPointWarning: no form asks.
ZeroPointWarningNever(component, form) == FALSE

\* pointsCompleted.value === 0 in the sprint forms: window.confirm is asked
ZeroPointWarning(component, form) ==
    /\ component \in SprintComponents
    /\ form.pointsCompleted = Num(0)

\* the store call handleSubmit awaits
StoreCall(component, form) ==
    CASE component = "LogSprintView" ->
             [fn |-> "addSprint", id |-> FreshId,
              data |-> LogSprintView_sprintData(RouteTeamId, form,
                                                teamDocs[RouteTeamId])]
      [] component = "EditSprintModal" ->
             [fn |-> "updateSprint", id |-> PropsSprintId,
              data |-> EditSprintModal_sprintData(sprintDocs[PropsSprintId],
                                                  form)]
      [] component = "CreateTeamModal" ->
             [fn |-> "addTeam", id |-> FreshTeamId,
              data |-> CreateTeamModal_teamData(form)]
      [] component = "EditTeamModal" ->
             [fn |-> "updateTeam", id |-> RouteTeamId,
              data |-> EditTeamModal_updateData(teamDocs[RouteTeamId], form)]

\* the refs of a component that has just been mounted; closeEvents counts
\* emit('close') and, in LogSprintView, router.push to the team page;
\* confirmed holds what window.confirm returned if the last handleSubmit
\* asked, outcome how the last store call settled
MountedForm(component) ==
    [component |-> component,
     mounted |-> TRUE,
     form |-> Null,
     confirmed |-> {},
     hasAttemptedSubmit |-> FALSE,
     isSubmitting |-> FALSE,
     submitError |-> Null,
     pending |-> Null,
     outcome |-> "none",
     closeEvents |-> 0]

\* a sprint of the team logged earlier
LoggedSprint(team) ==
    LogSprintView_sprintData(RouteTeamId,
                             [endDate |-> Num(0 - 1),
                              pointsCompleted |-> Num(MaxPoints),
                              leaveDays |-> Num(0)],
                             team)

\* one team with one sprint, and one of the four forms open
InitSubmit ==
    /\ NoInvocation
    /\ \E team \in {d \in TeamDocuments : /\ d.baselineVelocity = Num(0)
                                           /\ d.memberCount = Num(MaxDevelopers)
                                           /\ d.sprintLengthDays = Num(MaxSprintLength)} :
         /\ teamDocs = [t \in TeamIds |-> IF t = RouteTeamId THEN team ELSE Unused]
         /\ sprintDocs = [id \in SprintIds |->
                             IF id = PropsSprintId THEN LoggedSprint(team)
                                                   ELSE Unused]
    /\ deleteTeamBatch = [t \in TeamIds |-> Null]
    /\ lastCall = Undefined
    /\ \E component \in FormComponents : view = MountedForm(component)

\* handleSubmit up to its return or its await; the controls are disabled
\* while isSubmitting.  answer is what window.confirm returns when asked.
FormHandleSubmit ==
    /\ view.mounted
    /\ ~view.isSubmitting
    /\ \E form \in FormsOf(view.component), answer \in BOOLEAN :
         LET valid == isFormValid(view.component, form)
             asked == valid /\ ZeroPointWarning(view.component, form)
             proceeds == valid /\ (asked => answer)
             call == StoreCall(view.component, form)
         IN  /\ ~asked => answer
             /\ view' = [view EXCEPT
                            !.hasAttemptedSubmit = TRUE,
                            !.submitError = Null,
                            !.form = form,
                            !.confirmed = IF asked THEN {answer} ELSE {},
                            !.isSubmitting = proceeds,
                            !.pending = IF proceeds THEN call ELSE Null,
                            !.outcome = "none"]
             /\ lastCall' = IF proceeds
                            THEN [fn |-> call.fn, id |-> call.id,
                                  fields |-> DOMAIN call.data]
                            ELSE lastCall
             /\ UNCHANGED <<engineVars, teamDocs, sprintDocs, deleteTeamBatch>>

\* the store call resolves: the document is written, then the rest of the
\* try block and the finally block run
FormStoreResolves ==
    /\ view.pending # Null
    /\ LET call == view.pending
       IN  CASE call.fn = "addSprint" ->
                    /\ sprintDocs' = [sprintDocs EXCEPT ![call.id] = call.data]
                    /\ UNCHANGED teamDocs
             [] call.fn = "updateSprint" ->
                    /\ sprintDocs' = [sprintDocs EXCEPT
                                         ![call.id] = Merge(@, call.data)]
                    /\ UNCHANGED teamDocs
             [] call.fn = "addTeam" ->
                    /\ teamDocs' =
                           [teamDocs EXCEPT
                                ![call.id] = Merge([baselineVelocity |-> Undefined],
                                                   call.data)]
                    /\ UNCHANGED sprintDocs
             [] call.fn = "updateTeam" ->
                    /\ teamDocs' = [teamDocs EXCEPT
                                       ![call.id] = Merge(@, call.data)]
                    /\ UNCHANGED sprintDocs
    /\ view' = [view EXCEPT
                   !.pending = Null,
                   !.outcome = "fulfilled",
                   !.closeEvents = @ + 1,
                   !.mounted = FALSE,
                   !.isSubmitting = FALSE]
    /\ UNCHANGED <<engineVars, deleteTeamBatch, lastCall>>

\* Variant of FormStoreRejects: the catch block also closes the form.
FormStoreRejectsAndCloses ==
    /\ view.pending # Null
    /\ \E error \in Rejections :
         view' = [view EXCEPT
                     !.pending = Null,
                     !.outcome = "rejected",
                     !.submitError = ErrorMessage(error,
                                                  FailureText(view.component)),
                     !.closeEvents = @ + 1,
                     !.mounted = FALSE,
                     !.isSubmitting = FALSE]
    /\ UNCHANGED <<engineVars, storeVars>>

\* the store call rejects: the catch block and the finally block run
FormStoreRejects ==
    /\ view.pending # Null
    /\ \E error \in Rejections :
         view' = [view EXCEPT
                     !.pending = Null,
                     !.outcome = "rejected",
                     !.submitError = ErrorMessage(error,
                                                  FailureText(view.component)),
                     !.isSubmitting = FALSE]
    /\ UNCHANGED <<engineVars, storeVars>>

\* handleClose of the modals: overlay, X and Cancel
FormHandleClose ==
    /\ view.mounted
    /\ view.component \in ModalComponents
    /\ view' = IF ~view.isSubmitting
               THEN [view EXCEPT !.closeEvents = @ + 1, !.mounted = FALSE]
               ELSE view
    /\ UNCHANGED <<engineVars, storeVars>>

NextSubmit ==
    \/ FormHandleSubmit
    \/ FormStoreResolves
    \/ FormStoreRejects
    \/ FormHandleClose

SpecSubmit == InitSubmit /\ [][NextSubmit]_vars

----------------------------------------------------------------------------
(* TeamDetailView and its confirmation dialog *)

\* the delete calls of TeamDetailView that can be pending at a time
MaxPendingDeletes == 2

DeleteTeamAction == Str("delete-team")
DeleteSprintAction == Str("delete-sprint")

\* the refs of TeamDetailView when it is mounted.  pendingDeletes holds the
\* store calls handleConfirmAction is waiting for, navigations counts
\* router.push('/'), deleteCalls the store calls made since the dialog was
\* opened, and event is the handler that ran last.
MountedDetailView ==
    [component |-> "TeamDetailView",
     mounted |-> TRUE,
     confirmAction |-> Null,
     pendingSprintId |-> Null,
     deleteError |-> Null,
     pendingDeletes |-> <<>>,
     navigations |-> 0,
     deleteCalls |-> 0,
     event |-> "mounted"]

\* the team of the route with two sprints
InitDetail ==
    /\ NoInvocation
    /\ \E team \in {d \in TeamDocuments : /\ d.baselineVelocity = Undefined
                                           /\ d.memberCount = Num(1)} :
         /\ teamDocs = [t \in TeamIds |-> IF t = RouteTeamId THEN team ELSE Unused]
         /\ sprintDocs = [id \in SprintIds |-> LoggedSprint(team)]
    /\ deleteTeamBatch = [t \in TeamIds |-> Null]
    /\ lastCall = Undefined
    /\ view = MountedDetailView

\* the confirmation dialog is rendered, and covers the page
DialogShown == view.mounted /\ view.confirmAction # Null

\* the sprints of the team listed on the page
ListedSprints ==
    {id \in SprintIds : /\ Exists(sprintDocs[id])
                        /\ sprintDocs[id].teamId = RouteTeamId}

handleDeleteTeam ==
    /\ view.mounted
    /\ ~DialogShown
    /\ view' = IF TeamValue(RouteTeamId) = Undefined
               THEN [view EXCEPT !.event = "handleDeleteTeam"]
               ELSE [view EXCEPT !.confirmAction = DeleteTeamAction,
                                 !.deleteCalls = 0,
                                 !.event = "handleDeleteTeam"]
    /\ UNCHANGED <<engineVars, storeVars>>

handleDeleteSprint ==
    /\ view.mounted
    /\ ~DialogShown
    /\ \E sprintId \in ListedSprints :
         view' = [view EXCEPT !.confirmAction = DeleteSprintAction,
                              !.pendingSprintId = Str(sprintId),
                              !.deleteCalls = 0,
                              !.event = "handleDeleteSprint"]
    /\ UNCHANGED <<engineVars, storeVars>>

\* the store call handleConfirmAction makes for the dialog shown
DeleteCallOf(confirmAction, pendingSprintId) ==
    IF confirmAction = DeleteTeamAction
    THEN <<[fn |-> "deleteTeam", id |-> RouteTeamId]>>
    ELSE IF confirmAction = DeleteSprintAction /\ pendingSprintId # Null
         THEN <<[fn |-> "deleteSprint", id |-> pendingSprintId.string]>>
         ELSE <<>>

\* the dialog emits confirm: handleConfirmAction up to its await, or to its
\* end when it calls nothing
handleConfirmAction ==
    /\ DialogShown
    /\ Len(view.pendingDeletes) < MaxPendingDeletes
    /\ LET call == DeleteCallOf(view.confirmAction, view.pendingSprintId)
       IN  view' = IF call # <<>>
                   THEN [view EXCEPT !.deleteError = Null,
                                     !.pendingDeletes = @ \o call,
                                     !.deleteCalls = @ + 1,
                                     !.event = "handleConfirmAction"]
                   ELSE [view EXCEPT !.deleteError = Null,
                                     !.confirmAction = Null,
                                     !.pendingSprintId = Null,
                                     !.event = "handleConfirmAction"]
    /\ UNCHANGED <<engineVars, storeVars>>

\* the dialog emits cancel
handleCancelAction ==
    /\ DialogShown
    /\ view' = [view EXCEPT !.confirmAction = Null,
                            !.pendingSprintId = Null,
                            !.event = "handleCancelAction"]
    /\ UNCHANGED <<engineVars, storeVars>>

WithoutCall(calls, i) ==
    SubSeq(calls, 1, i - 1) \o SubSeq(calls, i + 1, Len(calls))

\* Variant of DeleteRejects: the view leaves the team page all the same.
DeleteRejectsAndLeaves ==
    \E i \in DOMAIN view.pendingDeletes, error \in Rejections :
        /\ view' = [view EXCEPT
                       !.pendingDeletes = WithoutCall(@, i),
                       !.deleteError =
                           ErrorMessage(error,
                                        Str("An unexpected error occurred")),
                       !.navigations = @ + 1,
                       !.mounted = FALSE,
                       !.confirmAction = Null,
                       !.pendingSprintId = Null,
                       !.event = "rejected"]
        /\ UNCHANGED <<engineVars, storeVars>>

\* a pending delete resolves: the documents are gone, then the rest of the
\* try block and the finally block run
DeleteResolves ==
    \E i \in DOMAIN view.pendingDeletes :
        LET call == view.pendingDeletes[i]
        IN  /\ IF call.fn = "deleteTeam"
               THEN /\ teamDocs' = [teamDocs EXCEPT ![call.id] = Deleted]
                    /\ sprintDocs' =
                           [id \in SprintIds |->
                               IF Exists(sprintDocs[id])
                                      /\ sprintDocs[id].teamId = call.id
                               THEN Deleted
                               ELSE sprintDocs[id]]
               ELSE /\ sprintDocs' = [sprintDocs EXCEPT ![call.id] = Deleted]
                    /\ UNCHANGED teamDocs
            /\ view' = [view EXCEPT
                           !.pendingDeletes = WithoutCall(@, i),
                           !.navigations =
                               IF call.fn = "deleteTeam" THEN @ + 1 ELSE @,
                           !.mounted =
                               IF call.fn = "deleteTeam" THEN FALSE ELSE @,
                           !.confirmAction = Null,
                           !.pendingSprintId = Null,
                           !.event = "resolved"]
            /\ UNCHANGED <<engineVars, deleteTeamBatch, lastCall>>

\* a pending delete rejects: the catch block and the finally block run
DeleteRejects ==
    \E i \in DOMAIN view.pendingDeletes, error \in Rejections :
        /\ view' = [view EXCEPT
                       !.pendingDeletes = WithoutCall(@, i),
                       !.deleteError =
                           ErrorMessage(error,
                                        Str("An unexpected error occurred")),
                       !.confirmAction = Null,
                       !.pendingSprintId = Null,
                       !.event = "rejected"]
        /\ UNCHANGED <<engineVars, storeVars>>

NextDetail ==
    \/ handleDeleteTeam
    \/ handleDeleteSprint
    \/ handleConfirmAction
    \/ handleCancelAction
    \/ DeleteResolves
    \/ DeleteRejects

SpecDetail == InitDetail /\ [][NextDetail]_vars

----------------------------------------------------------------------------
(* Vocabulary of the properties *)

Returned(f) == fn = f /\ pc = "returned"

\* equality and order of two numbers, by cross-multiplication
Eq(a, b) == a.n * b.d = b.n * a.d
Leq(a, b) == a.n * b.d <= b.n * a.d

IsInteger(a) == a.n % a.d = 0

\* periodLengthDays - leaveUnits / developerCount
AvailableDays(P, D, L) == Minus(P, Divide(L, D))

\* k is the floor of the product a * b: k <= a * b < k + 1
IsFloorOfProduct(k, a, b) ==
    /\ IsInteger(k)
    /\ Leq(k, Times(a, b))
    /\ ~Leq(Plus(k, Num(1)), Times(a, b))

----------------------------------------------------------------------------
(* C1..C10 *)

\* C1: whenever calculateSprintPlan returns a plan, availableDays is
\* sprintLengthDays - expectedLeaveDays / developerCount, recommendedPoints is
\* the integer k with k <= v * availableDays < k + 1 and fullCapacityPoints
\* is the integer m with m <= v * sprintLengthDays < m + 1.
C1_PlanFloors ==
    (Returned("calculateSprintPlan") /\ ret # Null) =>
        LET a == AvailableDays(args.sprintLengthDays, args.developerCount,
                               args.expectedLeaveDays)
        IN  /\ Eq(ret.availableDays, a)
            /\ IsFloorOfProduct(ret.recommendedPoints, args.averageVelocityPerDay, a)
            /\ IsFloorOfProduct(ret.fullCapacityPoints, args.averageVelocityPerDay,
                                args.sprintLengthDays)

\* a plan whose product v * availableDays is not an integer, with leave taken
C1_Witness ==
    /\ Returned("calculateSprintPlan")
    /\ ret # Null
    /\ Less(Num(0), args.expectedLeaveDays)
    /\ ~IsInteger(Times(args.averageVelocityPerDay, ret.availableDays))
    /\ ~IsInteger(Times(args.averageVelocityPerDay, args.sprintLengthDays))

\* C2: calculateSprintVelocityPerDay returns null when the record's own
\* sprintLengthDays - leaveDays / developerCount is below 1, and otherwise
\* the number v with v * availableDays = pointsCompleted.
C2_NormalizerContract ==
    Returned("calculateSprintVelocityPerDay") =>
        LET s == args.sprint
            a == AvailableDays(s.sprintLengthDays, s.developerCount, s.leaveDays)
        IN  IF Less(a, Num(1))
            THEN ret = Null
            ELSE ret # Null /\ Eq(Times(ret, a), s.pointsCompleted)

\* a record with leave, several developers and a fractional availableDays
\* that normalizes to a number other than pointsCompleted / sprintLengthDays
C2_Witness ==
    /\ Returned("calculateSprintVelocityPerDay")
    /\ ret # Null
    /\ Less(Num(0), args.sprint.leaveDays)
    /\ Less(Num(1), args.sprint.developerCount)
    /\ Less(Num(0), args.sprint.pointsCompleted)
    /\ ~IsInteger(AvailableDays(args.sprint.sprintLengthDays,
                                args.sprint.developerCount, args.sprint.leaveDays))

\* the first five elements of a list, or all of it when it is shorter
FirstFive(h) == [i \in 1..(IF Len(h) < 5 THEN Len(h) ELSE 5) |-> h[i]]

\* C3: selectDataPoints includes the baseline exactly when one is supplied
\* (0 included) and fewer than 5 history values are supplied; then it is the
\* last element, after all history values; otherwise the output holds history
\* values only.
C3_BaselineIncludedIff ==
    Returned("selectDataPoints") =>
        LET h == args.sprintVelocities
            b == args.baselineVelocityPerDay
            included == b # Undefined /\ Len(h) < 5
        IN  /\ ret.includesBaseline = included
            /\ included => ret.dataPoints = h \o <<b>>
            /\ ~included => ret.dataPoints = FirstFive(h)

\* a baseline of 0 joins four history values
C3_Witness ==
    /\ Returned("selectDataPoints")
    /\ args.baselineVelocityPerDay = Num(0)
    /\ Len(args.sprintVelocities) = 4
    /\ ret.includesBaseline
    /\ Len(ret.dataPoints) = 5

\* C4: with 5 or more history values the baseline is dropped whatever its
\* value: the data points are the first five history values, includesBaseline
\* is false, and data points and aggregate are those of the same call without
\* a baseline.
C4_BaselineDroppedAtFive ==
    (Returned("selectDataPoints") /\ Len(args.sprintVelocities) >= 5) =>
        LET none == selectDataPoints(args.sprintVelocities, Undefined)
        IN  /\ ret.includesBaseline = FALSE
            /\ ret.dataPoints = FirstFive(args.sprintVelocities)
            /\ ret = none
            /\ calculateAverageVelocity(ret.dataPoints)
                   = calculateAverageVelocity(none.dataPoints)

\* an extreme baseline of 100 per day offered next to 5 or more history values
C4_Witness ==
    /\ Returned("selectDataPoints")
    /\ Len(args.sprintVelocities) >= 5
    /\ args.baselineVelocityPerDay = Num(100)
    /\ ret.includesBaseline = FALSE

\* whether a sprint is usable (availableDays >= 1), and its value per day
Usable(s) ==
    ~Less(AvailableDays(s.sprintLengthDays, s.developerCount, s.leaveDays), Num(1))
PerDay(s) ==
    Divide(s.pointsCompleted,
           AvailableDays(s.sprintLengthDays, s.developerCount, s.leaveDays))

UsableCount(l) == Cardinality({i \in 1..Len(l) : Usable(l[i])})

\* the sum of the numbers f[i] for i in I
RECURSIVE SumOver(_, _)
SumOver(f, I) ==
    IF I = {}
    THEN Num(0)
    ELSE LET i == CHOOSE j \in I : TRUE
         IN  Plus(f[i], SumOver(f, I \ {i}))

UsableSum(l) ==
    SumOver([i \in 1..Len(l) |-> PerDay(l[i])], {i \in 1..Len(l) : Usable(l[i])})

\* C5: for a team with baseline b (points per sprint), sprint length P and
\* k <= 4 usable sprints, velocityResult has averageVelocityPerDay =
\* (sum of the k per-day values + b / P) / (k + 1), dataPointCount = k + 1 and
\* includesBaseline = true.
C5_BaselineBlend ==
    (/\ Returned("velocityResult")
     /\ args.team.baselineVelocity # Undefined
     /\ UsableCount(args.sprints) <= 4) =>
        LET k == UsableCount(args.sprints)
            b == args.team.baselineVelocity
            P == args.team.sprintLengthDays
        IN  /\ ret # Null
            /\ ret.dataPointCount = k + 1
            /\ ret.includesBaseline
            /\ Eq(Times(ret.averageVelocityPerDay, Num(k + 1)),
                  Plus(UsableSum(args.sprints), Divide(b, P)))

\* four usable sprints and an unusable one, a baseline above 0 and a sprint
\* length above 1: the baseline weighs one fifth
C5_Witness ==
    /\ Returned("velocityResult")
    /\ UsableCount(args.sprints) = 4
    /\ Len(args.sprints) > 4
    /\ args.team.baselineVelocity # Undefined
    /\ Less(Num(0), args.team.baselineVelocity)
    /\ Less(Num(1), args.team.sprintLengthDays)
    /\ Less(Num(0), UsableSum(args.sprints))
    /\ ret.dataPointCount = 5

\* C6: calculateAverageVelocity returns null for the empty list, x for [x],
\* and for a non-empty list the number m with m * length = sum of elements.
C6_ArithmeticMean ==
    Returned("calculateAverageVelocity") =>
        LET l == args.dataPoints
        IN  /\ Len(l) = 0 => ret = Null
            /\ Len(l) = 1 => ret = l[1]
            /\ Len(l) > 0 =>
                   /\ ret # Null
                   /\ Eq(Times(ret, Num(Len(l))), SumOver(l, 1..Len(l)))

\* the mean of three values that differ, which is none of them
C6_Witness ==
    /\ Returned("calculateAverageVelocity")
    /\ Len(args.dataPoints) = 3
    /\ args.dataPoints[1] # args.dataPoints[2]
    /\ \A i \in 1..3 : ret # args.dataPoints[i]

\* C7: in every plan comparisonDelta = recommendedPoints - fullCapacityPoints
\* and it is never positive; recommendedPoints <= fullCapacityPoints when
\* expectedLeaveDays > 0 and the two are equal (delta 0) when it is 0.
C7_RecommendedAtMostFull ==
    (Returned("calculateSprintPlan") /\ ret # Null) =>
        /\ Eq(Plus(ret.comparisonDelta, ret.fullCapacityPoints), ret.recommendedPoints)
        /\ Leq(ret.comparisonDelta, Num(0))
        /\ Less(Num(0), args.expectedLeaveDays) =>
               Leq(ret.recommendedPoints, ret.fullCapacityPoints)
        /\ args.expectedLeaveDays = Num(0) =>
               /\ ret.recommendedPoints = ret.fullCapacityPoints
               /\ ret.comparisonDelta = Num(0)

\* a plan that leave reduces below full capacity
C7_Witness ==
    /\ Returned("calculateSprintPlan")
    /\ ret # Null
    /\ Less(Num(0), args.expectedLeaveDays)
    /\ Less(ret.comparisonDelta, Num(0))

\* C8: for the same sprint length, developer count and leave the normalizer
\* returns null exactly when the planner does; the planner returns null
\* whenever availableDays < 1.
C8_SameBoundary ==
    /\ Returned("calculateSprintVelocityPerDay") =>
           \A v \in Velocities :
               (ret = Null) <=>
                   (calculateSprintPlan(v, args.sprint.sprintLengthDays,
                                        args.sprint.developerCount,
                                        args.sprint.leaveDays) = Null)
    /\ Returned("calculateSprintPlan") =>
           /\ \A p \in Points :
                  (ret = Null) <=>
                      (calculateSprintVelocityPerDay(
                           [pointsCompleted |-> p,
                            leaveDays |-> args.expectedLeaveDays,
                            sprintLengthDays |-> args.sprintLengthDays,
                            developerCount |-> args.developerCount]) = Null)
           /\ Less(AvailableDays(args.sprintLengthDays, args.developerCount,
                                 args.expectedLeaveDays), Num(1)) => ret = Null

\* the planner refuses a leave that keeps availableDays between 0 and 1
C8_Witness ==
    /\ Returned("calculateSprintPlan")
    /\ ret = Null
    /\ Less(Num(0), AvailableDays(args.sprintLengthDays, args.developerCount,
                                  args.expectedLeaveDays))
    /\ Less(Num(0), args.averageVelocityPerDay)

\* C9 as stated: every record with leaveDays / developerCount >=
\* sprintLengthDays - 1 normalizes to null.
C9_AsStated ==
    (/\ Returned("calculateSprintVelocityPerDay")
     /\ Leq(Minus(args.sprint.sprintLengthDays, Num(1)),
            Divide(args.sprint.leaveDays, args.sprint.developerCount))) =>
        ret = Null

\* C9, amended: every record with leaveDays / developerCount >
\* sprintLengthDays - 1 (availableDays < 1) normalizes to null.
C9_UnusableAboveBoundary ==
    (/\ Returned("calculateSprintVelocityPerDay")
     /\ Less(Minus(args.sprint.sprintLengthDays, Num(1)),
             Divide(args.sprint.leaveDays, args.sprint.developerCount))) =>
        ret = Null

\* a record with points whose leave keeps availableDays between 0 and 1
C9_Witness ==
    /\ Returned("calculateSprintVelocityPerDay")
    /\ Less(Minus(args.sprint.sprintLengthDays, Num(1)),
            Divide(args.sprint.leaveDays, args.sprint.developerCount))
    /\ Less(Divide(args.sprint.leaveDays, args.sprint.developerCount),
            args.sprint.sprintLengthDays)
    /\ Less(Num(0), args.sprint.pointsCompleted)
    /\ ret = Null

\* C10: a record with sprintLengthDays - leaveDays / developerCount = 1
\* normalizes to pointsCompleted, and a plan with availableDays = 1 is
\* returned, with recommendedPoints the floor of the throughput.
C10_BoundaryAccepted ==
    /\ (/\ Returned("calculateSprintVelocityPerDay")
        /\ Eq(AvailableDays(args.sprint.sprintLengthDays, args.sprint.developerCount,
                            args.sprint.leaveDays), Num(1))) =>
           ret = args.sprint.pointsCompleted
    /\ (/\ Returned("calculateSprintPlan")
        /\ Eq(AvailableDays(args.sprintLengthDays, args.developerCount,
                            args.expectedLeaveDays), Num(1))) =>
           /\ ret # Null
           /\ ret.availableDays = Num(1)
           /\ IsFloorOfProduct(ret.recommendedPoints, args.averageVelocityPerDay,
                               Num(1))

\* a record with leave and points, exactly one available day, normalized to
\* its points
C10_Witness ==
    /\ Returned("calculateSprintVelocityPerDay")
    /\ Less(Num(0), args.sprint.leaveDays)
    /\ Less(Num(0), args.sprint.pointsCompleted)
    /\ Eq(AvailableDays(args.sprint.sprintLengthDays, args.sprint.developerCount,
                        args.sprint.leaveDays), Num(1))
    /\ ret = args.sprint.pointsCompleted

----------------------------------------------------------------------------
(* C11..C17 *)

\* no usable sprint and no baseline
NoData(sprintList, teamData) ==
    UsableCount(sprintList) = 0 /\ teamData.baselineVelocity = Undefined

\* C11: the composable reports no data (velocityResult null, hasData false,
\* calculatePlan null for every leave, leave 0 included) exactly when the
\* list holds no usable sprint and the team has no baseline; otherwise
\* velocityResult is not null and its average is a number.
C11_NoDataIff ==
    /\ Returned("velocityResult") =>
           /\ (ret = Null) <=> NoData(args.sprints, args.team)
           /\ ret # Null => ret.averageVelocityPerDay # Null
    /\ Returned("hasData") => (ret <=> ~NoData(args.sprints, args.team))
    /\ Returned("calculatePlan") =>
           /\ NoData(args.sprints, args.team) => ret = Null
           /\ (~NoData(args.sprints, args.team) /\ args.expectedLeaveDays = Num(0))
                  => ret # Null

\* a list of unusable sprints only and a team without baseline: hasData is
\* false
C11_Witness ==
    /\ Returned("hasData")
    /\ Len(args.sprints) > 0
    /\ NoData(args.sprints, args.team)
    /\ ret = FALSE

\* the team with its baseline removed
WithoutBaseline(teamData) == [teamData EXCEPT !.baselineVelocity = Undefined]

SprintDerived(result) ==
    IF result = Null
    THEN <<>>
    ELSE IF result.includesBaseline
         THEN SubSeq(result.velocityDataPoints, 1, result.dataPointCount - 1)
         ELSE result.velocityDataPoints

\* one fixed team configuration with the given baseline
ReferenceTeam(baselineVelocity) ==
    [developerCount |-> Num(1), sprintLengthDays |-> Num(1),
     baselineVelocity |-> baselineVelocity]

\* C13: for a fixed sprint list the sprint-derived data points under any
\* team configuration (developerCount, sprintLengthDays) are those under one
\* fixed configuration, hence the same under any two; with 5 or more usable
\* sprints the whole result, average included, is that of the fixed
\* configuration without baseline, hence the same under every team.
C13_SnapshotOnly ==
    Returned("velocityResult") =>
        /\ SprintDerived(velocityResult(args.sprints,
                                        ReferenceTeam(args.team.baselineVelocity)))
               = SprintDerived(ret)
        /\ UsableCount(args.sprints) >= 5 =>
               LET reference == velocityResult(args.sprints, ReferenceTeam(Undefined))
               IN  /\ ret = reference
                   /\ ret.averageVelocityPerDay = reference.averageVelocityPerDay

\* a sprint logged with 2 developers and 3 days, read for a team that now has
\* another developer count and 2 days: its value stays 2 / (3 - 3/2)
C13_Witness ==
    /\ Returned("velocityResult")
    /\ args.team.developerCount # Num(1)
    /\ args.team.sprintLengthDays = Num(2)
    /\ args.team.baselineVelocity # Undefined
    /\ Len(args.sprints) > 0
    /\ args.sprints[1].developerCount = Num(2)
    /\ args.sprints[1].sprintLengthDays = Num(3)
    /\ ret # Null
    /\ ret.velocityDataPoints[1] = Rat(4, 3)

\* the smaller of two integers
Min(a, b) == IF a < b THEN a ELSE b

\* C14: the history part of the output of selectDataPoints is the first
\* min(n, 5) elements of the input, each at its input position; a baseline,
\* if any, comes after them; and the call leaves its input list as it was.
C14_FirstFiveInOrder ==
    /\ [](Returned("selectDataPoints") =>
              LET h == args.sprintVelocities
                  m == Min(Len(h), 5)
              IN  /\ Len(ret.dataPoints) = m + (IF ret.includesBaseline THEN 1 ELSE 0)
                  /\ \A i \in 1..m : ret.dataPoints[i] = h[i])
    /\ [][fn = "selectDataPoints" => args'.sprintVelocities = args.sprintVelocities]_vars

\* six history values that are not in sorted order, the sixth unlike the
\* first: the output keeps the first five as they came
C14_Witness ==
    /\ Returned("selectDataPoints")
    /\ Len(args.sprintVelocities) = 6
    /\ Less(args.sprintVelocities[1], args.sprintVelocities[2])
    /\ Less(args.sprintVelocities[3], args.sprintVelocities[2])
    /\ args.sprintVelocities[6] # args.sprintVelocities[1]
    /\ ret.dataPoints = SubSeq(args.sprintVelocities, 1, 5)

\* C15: the selection never holds more than 5 values, with or without a
\* baseline, and dataPointCount is the length of the selection.
C15_AtMostFive ==
    /\ Returned("selectDataPoints") => Len(ret.dataPoints) <= 5
    /\ (Returned("velocityResult") /\ ret # Null) =>
           /\ ret.dataPointCount = Len(ret.velocityDataPoints)
           /\ ret.dataPointCount
                  = Len(selectDataPoints(
                            MapFilterVelocities(args.sprints),
                            IF args.team.baselineVelocity = Undefined
                            THEN Undefined
                            ELSE baselineToVelocityPerDay(args.team.baselineVelocity,
                                                          args.team.sprintLengthDays)
                        ).dataPoints)
           /\ ret.dataPointCount <= 5

\* more usable sprints than the window holds and a baseline on offer: five
\* data points
C15_Witness ==
    /\ Returned("velocityResult")
    /\ UsableCount(args.sprints) > 5
    /\ args.team.baselineVelocity # Undefined
    /\ ret # Null
    /\ ret.dataPointCount = 5

\* the usable sprints of a list, in list order
UsableSprints(l) == SelectSeq(l, Usable)

\* a sequence without its i-th element
RemoveAt(q, i) == SubSeq(q, 1, i - 1) \o SubSeq(q, i + 1, Len(q))

\* C16: a usable sprint with 0 points normalizes to 0, not to null; when it
\* is among the first five usable sprints its 0 is the data point at its
\* position; and the average is never above the average of the other data
\* points alone.
C16_ZeroPointsKept ==
    Returned("velocityResult") =>
        LET u == UsableSprints(args.sprints)
        IN  \A i \in 1..Min(Len(u), 5) :
                u[i].pointsCompleted = Num(0) =>
                    /\ calculateSprintVelocityPerDay(u[i]) = Num(0)
                    /\ ret # Null
                    /\ ret.dataPointCount >= i
                    /\ ret.velocityDataPoints[i] = Num(0)
                    /\ LET others == RemoveAt(ret.velocityDataPoints, i)
                       IN  Len(others) > 0 =>
                               Leq(ret.averageVelocityPerDay,
                                   calculateAverageVelocity(others))

\* one sprint with 0 points among sprints with points: the average is
\* strictly below that of the others
C16_Witness ==
    /\ Returned("velocityResult")
    /\ args.team.baselineVelocity = Undefined
    /\ Len(args.sprints) = 3
    /\ \A i \in 1..3 : Usable(args.sprints[i])
    /\ args.sprints[2].pointsCompleted = Num(0)
    /\ Less(Num(0), args.sprints[1].pointsCompleted)
    /\ Less(Num(0), args.sprints[3].pointsCompleted)
    /\ ret.velocityDataPoints[2] = Num(0)
    /\ Less(ret.averageVelocityPerDay,
            calculateAverageVelocity(RemoveAt(ret.velocityDataPoints, 2)))

\* C17 as stated: for every sprint list of length 5 or more includesBaseline
\* is false and the result is that of the team without baseline.
C17_AsStated ==
    (Returned("velocityResult") /\ Len(args.sprints) >= 5) =>
        /\ ret # Null => ~ret.includesBaseline
        /\ ret = velocityResult(args.sprints, WithoutBaseline(args.team))

\* C17, amended: for every sprint list with 5 or more usable sprints
\* includesBaseline is false, the data points are the values of the first
\* five usable sprints, and the result is that of the team without baseline.
C17_BaselineDropsAtFiveUsable ==
    (Returned("velocityResult") /\ UsableCount(args.sprints) >= 5) =>
        LET u == UsableSprints(args.sprints)
        IN  /\ ret # Null
            /\ ~ret.includesBaseline
            /\ ret.velocityDataPoints = [i \in 1..5 |-> PerDay(u[i])]
            /\ ret = velocityResult(args.sprints, WithoutBaseline(args.team))

\* five usable sprints and an unusable one, and a baseline above 0 that is
\* left out
C17_Witness ==
    /\ Returned("velocityResult")
    /\ Len(args.sprints) = 6
    /\ UsableCount(args.sprints) = 5
    /\ args.team.baselineVelocity # Undefined
    /\ Less(Num(0), args.team.baselineVelocity)
    /\ ~ret.includesBaseline
    /\ ret.dataPointCount = 5

----------------------------------------------------------------------------
(* C18..C20 *)

\* C18: deleteTeam deletes the team and all its sprints together, whatever
\* addSprint calls it is interleaved with: once the document of a team is
\* gone, no sprint with its teamId is left.
C18_NoOrphanedSprints ==
    \A t \in TeamIds :
        teamDocs[t] = Deleted =>
            \A id \in SprintIds :
                Exists(sprintDocs[id]) => sprintDocs[id].teamId # t

\* C19: every stored sprint has sprintLengthDays - leaveDays / developerCount
\* >= 1 on its own snapshot values, after any sequence of log-sprint,
\* edit-sprint and edit-team submissions, so that
\* calculateSprintVelocityPerDay returns a number for it.
C19_StoredSprintsUsable ==
    \A id \in SprintIds :
        Exists(sprintDocs[id]) =>
            LET sprint == sprintDocs[id]
            IN  /\ Leq(Num(1), AvailableDays(sprint.sprintLengthDays,
                                             sprint.developerCount, sprint.leaveDays))
                /\ calculateSprintVelocityPerDay(sprint) # Null

\* a sprint logged for 3 days and 1 developer whose leave was edited to the
\* limit of 2 days after the team went down to sprints of 1 day, which would
\* not allow any leave
C19_Witness ==
    /\ lastCall # Undefined
    /\ lastCall.fn = "updateSprint"
    /\ Exists(sprintDocs[lastCall.id])
    /\ sprintDocs[lastCall.id].leaveDays = Num(2)
    /\ sprintDocs[lastCall.id].developerCount = Num(1)
    /\ sprintDocs[lastCall.id].sprintLengthDays = Num(3)
    /\ teamDocs[sprintDocs[lastCall.id].teamId].sprintLengthDays = Num(1)

\* the fields of a sprint that are set when it is logged
SnapshotOf(sprint) ==
    [teamId |-> sprint.teamId,
     sprintLengthDays |-> sprint.sprintLengthDays,
     developerCount |-> sprint.developerCount]

\* C20: in every step, a sprint that is created gets the sprint length and
\* developer count its team has at that moment; a sprint that exists keeps
\* its teamId, sprint length and developer count; the payload of
\* updateSprint has the fields endDate, pointsCompleted and leaveDays only;
\* and a step that writes the team writes no sprint.
C20_SnapshotFrozen ==
    [][/\ \A id \in SprintIds :
              /\ (Exists(sprintDocs[id]) /\ Exists(sprintDocs'[id])) =>
                     SnapshotOf(sprintDocs'[id]) = SnapshotOf(sprintDocs[id])
              /\ (~Exists(sprintDocs[id]) /\ Exists(sprintDocs'[id])) =>
                     LET team == teamDocs[sprintDocs'[id].teamId]
                     IN  /\ sprintDocs'[id].sprintLengthDays = team.sprintLengthDays
                         /\ sprintDocs'[id].developerCount = team.developerCount
       /\ lastCall'.fn = "updateSprint" =>
              lastCall'.fields = {"endDate", "pointsCompleted", "leaveDays"}
       /\ teamDocs' # teamDocs => sprintDocs' = sprintDocs
      ]_storeVars

\* the team was edited after one sprint was logged and before the next: the
\* first sprint keeps the old developer count, the second has the new one
C20_Witness ==
    /\ Exists(sprintDocs["s1"])
    /\ Exists(sprintDocs["s2"])
    /\ sprintDocs["s1"].teamId = sprintDocs["s2"].teamId
    /\ sprintDocs["s1"].developerCount # sprintDocs["s2"].developerCount
    /\ sprintDocs["s1"].sprintLengthDays # sprintDocs["s2"].sprintLengthDays
    /\ lastCall.fn = "updateSprint"
    /\ lastCall.id = "s1"

----------------------------------------------------------------------------
(* C21..C30 *)

\* C21: the sprint-derived data points of velocityResult are the per-day
\* values of the first min(k, 5) usable sprints in list order, k the number
\* of usable sprints, and the baseline is included exactly when the team has
\* one and k < 5, whatever the length of the list.
C21_WindowAfterFilter ==
    Returned("velocityResult") =>
        LET u == UsableSprints(args.sprints)
            m == Min(Len(u), 5)
            baseline == args.team.baselineVelocity # Undefined
        IN  /\ SprintDerived(ret) = [i \in 1..m |-> PerDay(u[i])]
            /\ ret # Null => (ret.includesBaseline <=> (baseline /\ Len(u) < 5))
            /\ ret = Null <=> (m = 0 /\ ~baseline)

\* an unusable sprint in second place of six: the fifth data point is the
\* value of the sixth sprint, which has points, and the baseline stays out
C21_Witness ==
    /\ Returned("velocityResult")
    /\ Len(args.sprints) = 6
    /\ ~Usable(args.sprints[2])
    /\ \A i \in {1, 3, 4, 5, 6} : Usable(args.sprints[i])
    /\ Less(Num(0), args.sprints[6].pointsCompleted)
    /\ args.sprints[5].pointsCompleted = Num(0)
    /\ args.team.baselineVelocity # Undefined
    /\ ret.dataPointCount = 5
    /\ ret.velocityDataPoints[5] = PerDay(args.sprints[6])
    /\ ~ret.includesBaseline

\* C22: getSprintsForTeam returns each stored sprint of the team once and
\* nothing else, newest end date first; the empty list when the team has no
\* sprint; and the store's list is the same after the call.
C22_TeamSprintsNewestFirst ==
    /\ [](Returned("getSprintsForTeam") =>
              LET own == {i \in 1..Len(args.sprints) :
                             args.sprints[i].teamId = args.teamId}
              IN  /\ Len(ret) = Cardinality(own)
                  /\ {ret[j] : j \in 1..Len(ret)} = {args.sprints[i] : i \in own}
                  /\ \A j \in 1..(Len(ret) - 1) : ret[j].endDate >= ret[j + 1].endDate
                  /\ own = {} => ret = <<>>)
    /\ [][fn = "getSprintsForTeam" => args'.sprints = args.sprints]_vars

\* the team's sprints are stored oldest first between sprints of another
\* team, and come back newest first
C22_Witness ==
    /\ Returned("getSprintsForTeam")
    /\ Len(args.sprints) = 3
    /\ args.sprints[1].teamId = args.teamId
    /\ args.sprints[2].teamId # args.teamId
    /\ args.sprints[3].teamId = args.teamId
    /\ args.sprints[1].endDate < args.sprints[3].endDate
    /\ ret = <<args.sprints[3], args.sprints[1]>>

\* the counts of a team document: developerCount an integer in
\* 1..memberCount, sprintLengthDays an integer in 1..30
TeamCountsValid(team) ==
    /\ NumberIsInteger(team.developerCount)
    /\ Leq(Num(1), team.developerCount)
    /\ Leq(team.developerCount, team.memberCount)
    /\ NumberIsInteger(team.sprintLengthDays)
    /\ Leq(Num(1), team.sprintLengthDays)
    /\ Leq(team.sprintLengthDays, Num(30))

\* C23: every team written through CreateTeamModal or EditTeamModal has an
\* integer developerCount in 1..memberCount, an integer sprintLengthDays in
\* 1..30, and a baselineVelocity that is absent or a number >= 0.
C23_TeamInvariants ==
    \A t \in TeamIds :
        Exists(teamDocs[t]) =>
            /\ TeamCountsValid(teamDocs[t])
            /\ \/ teamDocs[t].baselineVelocity = Undefined
               \/ /\ IsNumberValue(teamDocs[t].baselineVelocity)
                  /\ Leq(Num(0), teamDocs[t].baselineVelocity)

\* C24: a team created by CreateTeamModal has a baselineVelocity property
\* only when the field held a value: never the empty string of a cleared
\* field.
C24_EmptyBaselineOmitted ==
    (lastCall # Undefined /\ lastCall.fn = "addTeam") =>
        /\ teamDocs[lastCall.id].baselineVelocity # EmptyString
        /\ "baselineVelocity" \in lastCall.fields =>
               IsNumberValue(teamDocs[lastCall.id].baselineVelocity)

\* C25: for every team and every valid EditTeamModal form, a numeric baseline
\* field (0 included) is written as that number; an empty field on a team
\* with a baseline is written as deleteField() and the field is removed; an
\* empty field on a team without baseline leaves baselineVelocity out of the
\* payload.  After clearing, the team has no baseline: never a baseline of 0.
C25_BaselineWrite ==
    /\ \A t \in TeamIds : \A form \in TeamForms :
         (Exists(teamDocs[t]) /\ EditTeamModal_isFormValid(form)) =>
            LET team == teamDocs[t]
                updateData == EditTeamModal_updateData(team, form)
                after == Merge(team, updateData)
            IN  /\ IsNumberValue(form.baselineVelocity) =>
                       /\ "baselineVelocity" \in DOMAIN updateData
                       /\ updateData.baselineVelocity = form.baselineVelocity
                       /\ after.baselineVelocity = form.baselineVelocity
                /\ (IsBlank(form.baselineVelocity)
                        /\ team.baselineVelocity # Undefined) =>
                       /\ "baselineVelocity" \in DOMAIN updateData
                       /\ updateData.baselineVelocity = DeleteField
                       /\ after.baselineVelocity = Undefined
                /\ (IsBlank(form.baselineVelocity)
                        /\ team.baselineVelocity = Undefined) =>
                       /\ "baselineVelocity" \notin DOMAIN updateData
                       /\ after.baselineVelocity = Undefined
    /\ (lastCall # Undefined /\ lastCall.fn = "updateTeam") =>
           \/ teamDocs[lastCall.id].baselineVelocity = Undefined
           \/ /\ IsNumberValue(teamDocs[lastCall.id].baselineVelocity)
              /\ "baselineVelocity" \in lastCall.fields

\* an edit has removed the baseline of a team with deleteField()
C25_Witness ==
    /\ lastCall # Undefined
    /\ lastCall.fn = "updateTeam"
    /\ "baselineVelocity" \in lastCall.fields
    /\ teamDocs[lastCall.id].baselineVelocity = Undefined

\* a step of handleSubmit: the form is mounted before and after, and no
\* store call was pending
HandleSubmitStep ==
    /\ view.mounted
    /\ view'.mounted
    /\ view.pending = Null
    /\ view' # view

\* the form submitted passes every validation and, with 0 points in a sprint
\* form, the warning was confirmed
SubmissionAccepted ==
    /\ isFormValid(view.component, view'.form)
    /\ (view.component \in SprintComponents
            /\ view'.form.pointsCompleted = Num(0)) => view'.confirmed = {TRUE}

\* C26: in the four forms a store call starts only in a handleSubmit whose
\* form passes every validation and, for a sprint with 0 points, whose
\* warning was confirmed; any other handleSubmit makes no store call, writes
\* nothing and leaves isSubmitting false.
C26_StoreCallOnlyWhenValid ==
    [][/\ (view'.pending # Null /\ view'.pending # view.pending) =>
               (HandleSubmitStep /\ SubmissionAccepted /\ view'.isSubmitting)
       /\ lastCall' # lastCall =>
               (HandleSubmitStep /\ SubmissionAccepted)
       /\ (HandleSubmitStep /\ ~SubmissionAccepted) =>
               /\ view'.pending = Null
               /\ ~view'.isSubmitting
               /\ UNCHANGED storeVars]_vars

\* a sprint form with 0 points was submitted and the warning declined
C26_Witness ==
    /\ view.component \in SprintComponents
    /\ view.form # Null
    /\ view.form.pointsCompleted = Num(0)
    /\ view.confirmed = {FALSE}
    /\ view.pending = Null
    /\ ~view.isSubmitting

\* C27: isSubmitting is true exactly while a store call of the form is
\* pending.  When the call rejects, submitError is the error's message (or
\* the form's fallback text) and the form neither closes nor navigates; when
\* it resolves, the form closes or navigates once, for the only time, and
\* submitError is null.
C27_SubmittingUntilSettled ==
    /\ []((view.isSubmitting <=> view.pending # Null) /\ view.closeEvents <= 1)
    /\ [][(view.pending # Null /\ view'.pending = Null) =>
              /\ ~view'.isSubmitting
              /\ view'.outcome \in {"rejected", "fulfilled"}
              /\ view'.outcome = "rejected" =>
                     /\ view'.submitError \in {Str("unavailable"),
                                               FailureText(view.component)}
                     /\ view'.closeEvents = view.closeEvents
                     /\ view'.mounted
              /\ view'.outcome = "fulfilled" =>
                     /\ view'.submitError = Null
                     /\ view.closeEvents = 0
                     /\ view'.closeEvents = 1]_vars

\* a store call was rejected with something that is not an Error
C27_Witness ==
    /\ view.outcome = "rejected"
    /\ view.submitError = FailureText(view.component)
    /\ ~view.isSubmitting
    /\ view.mounted

\* C28: a store delete starts only in handleConfirmAction, with the dialog
\* shown; handleCancelAction starts none, writes nothing and clears
\* confirmAction and pendingSprintId; when a delete settles both are null,
\* and when it rejects deleteError is set and the step does not navigate.
C28_DeleteOnlyAfterConfirm ==
    [][/\ Len(view'.pendingDeletes) > Len(view.pendingDeletes) =>
              /\ view'.event = "handleConfirmAction"
              /\ view.mounted
              /\ view.confirmAction # Null
       /\ (teamDocs' # teamDocs \/ sprintDocs' # sprintDocs) =>
              /\ view'.event = "resolved"
              /\ Len(view'.pendingDeletes) < Len(view.pendingDeletes)
       /\ (view'.event = "handleCancelAction" /\ view' # view) =>
              /\ view'.pendingDeletes = view.pendingDeletes
              /\ view'.confirmAction = Null
              /\ view'.pendingSprintId = Null
              /\ UNCHANGED storeVars
       /\ Len(view'.pendingDeletes) < Len(view.pendingDeletes) =>
              /\ view'.event \in {"resolved", "rejected"}
              /\ view'.confirmAction = Null
              /\ view'.pendingSprintId = Null
              /\ view'.event = "rejected" =>
                     /\ view'.deleteError # Null
                     /\ view'.navigations = view.navigations
                     /\ view'.mounted = view.mounted
                     /\ UNCHANGED storeVars]_vars

\* a confirmed deletion of the team was rejected: the error is shown and the
\* view is still on the team page
C28_Witness ==
    /\ view.event = "rejected"
    /\ view.deleteError # Null
    /\ view.navigations = 0
    /\ view.mounted
    /\ view.confirmAction = Null
    /\ Exists(teamDocs[RouteTeamId])

\* C29: between two openings of the confirmation dialog the store delete is
\* called at most once.
C29_OneDeletePerDialog == view.deleteCalls <= 1

\* C30: with throughput, sprint length and developer count fixed, a larger
\* expectedLeaveDays never gives calculateSprintPlan a larger
\* recommendedPoints or capacityPercentage, and gives no plan when the
\* smaller leave gave none.
C30_PlanMonotoneInLeave ==
    Returned("calculateSprintPlan") =>
        \A more \in Leaves :
            Leq(args.expectedLeaveDays, more) =>
                LET later == calculateSprintPlan(args.averageVelocityPerDay,
                                                 args.sprintLengthDays,
                                                 args.developerCount,
                                                 more)
                IN  /\ ret = Null => later = Null
                    /\ (ret # Null /\ later # Null) =>
                           /\ Leq(later.recommendedPoints, ret.recommendedPoints)
                           /\ Leq(later.capacityPercentage,
                                  ret.capacityPercentage)

\* a plan was returned for some leave, a larger leave gives a plan with
\* fewer points, and a still larger one gives none
C30_Witness ==
    /\ Returned("calculateSprintPlan")
    /\ ret # Null
    /\ Less(Num(0), args.expectedLeaveDays)
    /\ \E more, most \in Leaves :
         LET later == calculateSprintPlan(args.averageVelocityPerDay,
                                          args.sprintLengthDays,
                                          args.developerCount, more)
         IN  /\ Less(args.expectedLeaveDays, more)
             /\ Less(more, most)
             /\ later # Null
             /\ Less(later.recommendedPoints, ret.recommendedPoints)
             /\ calculateSprintPlan(args.averageVelocityPerDay,
                                    args.sprintLengthDays,
                                    args.developerCount, most) = Null

====
